---- MODULE Spec2Model ----
(***************************************************************************)
(* Data-access and caching layer of sea-here: the IndexedDB cache wrapper  *)
(* (cache.ts), the species repository (repository.ts), the backoff helper  *)
(* (backoff.ts), the domain type guards (types.ts) and the preload         *)
(* manifest (preload.ts).                                                  *)
(*                                                                         *)
(* JavaScript values are records tagged with their type.  A string is a    *)
(* sequence of symbols; a symbol stands for one character or for a run of  *)
(* non-blank characters, so trim, toLowerCase, includes, startsWith and    *)
(* template concatenation are computed on the sequence as the code         *)
(* computes them on characters.  Time is in milliseconds.                  *)
(***************************************************************************)
EXTENDS Integers, Sequences, FiniteSets, TLC

VARIABLES
    store,      \* the idb-keyval store: a function from the keys present to their values
    now,        \* Date.now()
    nticks,     \* how often the clock was advanced between calls
    nops,       \* number of direct cache operations performed
    lastOp,     \* the most recent direct cache operation and what it returned
    lastSet,    \* per logical key, the most recent successful set and what followed it
    call,       \* the repository accessor call in progress (its position and locals)
    prev,       \* summary of the previous completed accessor call
    ncalls,     \* number of accessor calls started
    nfaults,    \* number of store failures injected into accessor calls
    run,        \* a withBackoff call: its options, its loop position and what it did
    race,       \* concurrently issued cache calls, each between two store operations
    conc,       \* concurrent getSpecies calls for one id, each at a suspension point
    view        \* a mounted component: its props, its state and the getSpecies calls it awaits

vars == <<store, now, nticks, nops, lastOp, lastSet, call, prev, ncalls, nfaults, run, race, conc, view>>

(***************************************************************************)
(* JavaScript values                                                       *)
(***************************************************************************)
Undefined == [type |-> "undefined"]
Null == [type |-> "null"]
Str(s) == [type |-> "string", s |-> s]
Num(n) == [type |-> "number", n |-> n]
Bool(b) == [type |-> "boolean", b |-> b]
Arr(items) == [type |-> "array", items |-> items]
Obj(props) == [type |-> "object", props |-> props]
Fn(name) == [type |-> "function", name |-> name]

\* typeof v
typeof(v) ==
    CASE v.type = "undefined" -> "undefined"
      [] v.type = "null" -> "object"
      [] v.type = "array" -> "object"
      [] OTHER -> v.type

\* JavaScript truthiness, as `if (x)`, `!x` and `a && b` use it
Truthy(v) ==
    CASE v.type = "undefined" -> FALSE
      [] v.type = "null" -> FALSE
      [] v.type = "string" -> v.s # <<>>
      [] v.type = "number" -> v.n # 0
      [] v.type = "boolean" -> v.b
      [] OTHER -> TRUE

\* obj[name] on a plain data value: undefined when the property is missing
Prop(v, name) ==
    IF v.type = "object" /\ name \in DOMAIN v.props THEN v.props[name] ELSE Undefined

isArray(v) == v.type = "array"

(***************************************************************************)
(* Strings                                                                 *)
(***************************************************************************)
WhiteSpace == {" ", "\t"}

RECURSIVE trimStart(_)
trimStart(s) ==
    IF s # <<>> /\ Head(s) \in WhiteSpace THEN trimStart(Tail(s)) ELSE s

RECURSIVE trimEnd(_)
trimEnd(s) ==
    IF s # <<>> /\ s[Len(s)] \in WhiteSpace THEN trimEnd(SubSeq(s, 1, Len(s) - 1)) ELSE s

\* String.prototype.trim
trim(s) == trimEnd(trimStart(s))

\* lower-case form of one symbol
LowerSym(c) ==
    CASE c = "Sea" -> "sea"
      [] c = "Otter" -> "otter"
      [] c = "Seal" -> "seal"
      [] c = "Kelp" -> "kelp"
      [] OTHER -> c

\* String.prototype.toLowerCase
toLowerCase(s) == [i \in 1..Len(s) |-> LowerSym(s[i])]

\* String.prototype.includes
includes(text, term) ==
    \E i \in 0..(Len(text) - Len(term)) : SubSeq(text, i + 1, i + Len(term)) = term

\* Array.prototype.join(' ') on a sequence of strings
RECURSIVE joinSpace(_)
joinSpace(parts) ==
    IF parts = <<>> THEN <<>>
    ELSE IF Len(parts) = 1 THEN parts[1]
    ELSE parts[1] \o <<" ">> \o joinSpace(Tail(parts))

(***************************************************************************)
(* cache.ts: the store adapter (idb-keyval)                                *)
(***************************************************************************)
idbHas(s, k) == k \in DOMAIN s
idbSet(s, k, e) == [x \in DOMAIN s \cup {k} |-> IF x = k THEN e ELSE s[x]]
idbDel(s, k) == [x \in DOMAIN s \ {k} |-> s[x]]
idbKeys(s) == DOMAIN s

\* keys() lists the keys in ascending key order; these are the keys of the
\* stores the eviction passes run on
idbKeyOrder ==
    << <<"other-app:settings">>, <<"sea-here-cache:", "k1">>,
       <<"sea-here-cache:", "k2">>, <<"sea-here-cache:", "k3">> >>

idbKeysInOrder(s) == SelectSeq(idbKeyOrder, LAMBDA k : k \in DOMAIN s)

\* IndexedDB stores a structured clone: a write of a function fails (DataCloneError)
structuredCloneable(v) == v.type # "function"

(***************************************************************************)
(* cache.ts: the cache engine                                              *)
(***************************************************************************)
CACHE_PREFIX == "sea-here-cache:"

getCacheKey(key) == <<CACHE_PREFIX>> \o key

isCacheKey(key) == Len(key) >= 1 /\ key[1] = CACHE_PREFIX

\* Which store operation of a cache call fails: none, the read (idbGet),
\* or the write that follows it (idbDel of an expired entry, idbSet of the
\* refreshed entry, or the idbSet of set).
StoreFaults == {"none", "read", "write"}

\* variant: a hit returns the value without the write-back of lastAccess
get_noTouch(s, key, t, fault) ==
    LET cacheKey == getCacheKey(key) IN
    IF fault = "read" THEN [threw |-> FALSE, value |-> Undefined, store |-> s]
    ELSE IF ~idbHas(s, cacheKey) THEN [threw |-> FALSE, value |-> Undefined, store |-> s]
    ELSE LET entry == s[cacheKey] IN
         IF t > entry.expiresAt
         THEN [threw |-> FALSE, value |-> Undefined,
               store |-> IF fault = "write" THEN s ELSE idbDel(s, cacheKey)]
         ELSE IF fault = "write" THEN [threw |-> FALSE, value |-> Undefined, store |-> s]
         ELSE [threw |-> FALSE, value |-> entry.value, store |-> s]

\* get with a sliding expiry: a hit pushes expiresAt forward by the entry's original ttl
get_slidingExpiry(s, key, t, fault) ==
    LET cacheKey == getCacheKey(key) IN
    IF fault = "read" THEN [threw |-> FALSE, value |-> Undefined, store |-> s]
    ELSE IF ~idbHas(s, cacheKey) THEN [threw |-> FALSE, value |-> Undefined, store |-> s]
    ELSE LET entry == s[cacheKey] IN
         IF t > entry.expiresAt
         THEN [threw |-> FALSE, value |-> Undefined,
               store |-> IF fault = "write" THEN s ELSE idbDel(s, cacheKey)]
         ELSE IF fault = "write" THEN [threw |-> FALSE, value |-> Undefined, store |-> s]
         ELSE [threw |-> FALSE, value |-> entry.value,
               store |-> idbSet(s, cacheKey,
                                [entry EXCEPT !.lastAccess = t,
                                              !.expiresAt = @ + (t - entry.lastAccess)])]

\* variant: without the try/catch a failing store operation rejects the call
get_uncaught(s, key, t, fault) ==
    LET cacheKey == getCacheKey(key) IN
    IF fault = "read" THEN [threw |-> TRUE, value |-> Undefined, store |-> s]
    ELSE IF ~idbHas(s, cacheKey) THEN [threw |-> FALSE, value |-> Undefined, store |-> s]
    ELSE LET entry == s[cacheKey] IN
         IF t > entry.expiresAt
         THEN [threw |-> fault = "write", value |-> Undefined,
               store |-> IF fault = "write" THEN s ELSE idbDel(s, cacheKey)]
         ELSE IF fault = "write" THEN [threw |-> TRUE, value |-> Undefined, store |-> s]
         ELSE [threw |-> FALSE, value |-> entry.value,
               store |-> idbSet(s, cacheKey, [entry EXCEPT !.lastAccess = t])]

\* variant: finding its entry expired, get purges every expired entry
get_purgeAllExpired(s, key, t, fault) ==
    LET cacheKey == getCacheKey(key) IN
    IF fault = "read" THEN [threw |-> FALSE, value |-> Undefined, store |-> s]
    ELSE IF ~idbHas(s, cacheKey) THEN [threw |-> FALSE, value |-> Undefined, store |-> s]
    ELSE LET entry == s[cacheKey] IN
         IF t > entry.expiresAt
         THEN [threw |-> FALSE, value |-> Undefined,
               store |-> IF fault = "write" THEN s
                         ELSE [x \in {k \in DOMAIN s : isCacheKey(k) => t <= s[k].expiresAt}
                                 |-> s[x]]]
         ELSE IF fault = "write" THEN [threw |-> FALSE, value |-> Undefined, store |-> s]
         ELSE [threw |-> FALSE, value |-> entry.value,
               store |-> idbSet(s, cacheKey, [entry EXCEPT !.lastAccess = t])]

\* get(key) at time t: whether it rejects (it never does), the value returned
\* and the store it leaves
get(s, key, t, fault) ==
    LET cacheKey == getCacheKey(key) IN
    IF fault = "read" THEN [threw |-> FALSE, value |-> Undefined, store |-> s]
    ELSE IF ~idbHas(s, cacheKey) THEN [threw |-> FALSE, value |-> Undefined, store |-> s]
    ELSE LET entry == s[cacheKey] IN
         IF t > entry.expiresAt
         THEN [threw |-> FALSE, value |-> Undefined,
               store |-> IF fault = "write" THEN s ELSE idbDel(s, cacheKey)]
         ELSE IF fault = "write" THEN [threw |-> FALSE, value |-> Undefined, store |-> s]
         ELSE [threw |-> FALSE, value |-> entry.value,
               store |-> idbSet(s, cacheKey, [entry EXCEPT !.lastAccess = t])]

\* whether get(key) reaches its second store operation
getWrites(s, key) == idbHas(s, getCacheKey(key))

\* the errors a store operation rejects with
NoError == "none"
StoreError == "store error"
DataCloneError == "DataCloneError"

\* set that forgets the ttl: the entry expires at the time of the write
set_noTtl(s, key, value, ttlMs, t, fault) ==
    IF fault = "write" THEN [threw |-> TRUE, error |-> StoreError, store |-> s]
    ELSE IF ~structuredCloneable(value)
    THEN [threw |-> TRUE, error |-> DataCloneError, store |-> s]
    ELSE [threw |-> FALSE, error |-> NoError,
          store |-> idbSet(s, getCacheKey(key),
                           [value |-> value, expiresAt |-> t, lastAccess |-> t])]

\* variant: the catch block logs the error and does not rethrow it
set_swallow(s, key, value, ttlMs, t, fault) ==
    IF fault = "write" \/ ~structuredCloneable(value)
    THEN [threw |-> FALSE, error |-> NoError, store |-> s]
    ELSE [threw |-> FALSE, error |-> NoError,
          store |-> idbSet(s, getCacheKey(key),
                           [value |-> value, expiresAt |-> t + ttlMs, lastAccess |-> t])]

\* set(key, value, ttlMs) at time t: whether it rejects and with which error,
\* and the store it leaves
set(s, key, value, ttlMs, t, fault) ==
    IF fault = "write" THEN [threw |-> TRUE, error |-> StoreError, store |-> s]
    ELSE IF ~structuredCloneable(value)
    THEN [threw |-> TRUE, error |-> DataCloneError, store |-> s]
    ELSE [threw |-> FALSE, error |-> NoError,
          store |-> idbSet(s, getCacheKey(key),
                           [value |-> value, expiresAt |-> t + ttlMs, lastAccess |-> t])]

\* Array.prototype.sort by lastAccess, oldest first; the sort is stable
RECURSIVE sortByLastAccess(_, _)
sortByLastAccess(s, keys) ==
    IF keys = <<>> THEN <<>>
    ELSE LET rest == sortByLastAccess(s, SubSeq(keys, 1, Len(keys) - 1))
             e == keys[Len(keys)]
             n == Cardinality({i \in 1..Len(rest) :
                                  s[rest[i]].lastAccess <= s[e].lastAccess})
         IN SubSeq(rest, 1, n) \o <<e>> \o SubSeq(rest, n + 1, Len(rest))

\* variant: the scan reads the entries but leaves the expired ones in place
evictScan_noPurge(s, keys, t) == [i \in 1..Len(keys) |-> [kind |-> "get", key |-> keys[i]]]

\* the store operations of one evictLRUIfNeeded(maxEntries) pass at time t, in
\* the order the pass makes them: keys(), then per namespaced key a read and,
\* for an expired entry, a delete, then the deletes of the oldest live entries
RECURSIVE evictScan(_, _, _)
evictScan(s, keys, t) ==
    IF keys = <<>> THEN <<>>
    ELSE <<[kind |-> "get", key |-> Head(keys)]>>
         \o (IF t <= s[Head(keys)].expiresAt THEN <<>>
             ELSE <<[kind |-> "del", key |-> Head(keys)]>>)
         \o evictScan(s, Tail(keys), t)

\* variant: no early return, the scan runs whatever the number of keys
evictStoreOps_alwaysScan(s, maxEntries, t) ==
    LET cacheKeys == SelectSeq(idbKeysInOrder(s), isCacheKey)
        entries == sortByLastAccess(s, SelectSeq(cacheKeys, LAMBDA k : t <= s[k].expiresAt))
        entriesToEvict == Len(entries) - maxEntries
        keysToEvict == IF entriesToEvict > 0 THEN SubSeq(entries, 1, entriesToEvict)
                       ELSE <<>>
    IN <<[kind |-> "keys", key |-> <<>>]>>
       \o evictScan(s, cacheKeys, t)
       \o [i \in 1..Len(keysToEvict) |-> [kind |-> "del", key |-> keysToEvict[i]]]

evictStoreOps(s, maxEntries, t) ==
    LET cacheKeys == SelectSeq(idbKeysInOrder(s), isCacheKey) IN
    IF Len(cacheKeys) <= maxEntries THEN <<[kind |-> "keys", key |-> <<>>]>>
    ELSE LET entries == sortByLastAccess(s, SelectSeq(cacheKeys,
                                                LAMBDA k : t <= s[k].expiresAt))
             entriesToEvict == Len(entries) - maxEntries
             keysToEvict == IF entriesToEvict > 0 THEN SubSeq(entries, 1, entriesToEvict)
                            ELSE <<>>
         IN <<[kind |-> "keys", key |-> <<>>]>>
            \o evictScan(s, cacheKeys, t)
            \o [i \in 1..Len(keysToEvict) |-> [kind |-> "del", key |-> keysToEvict[i]]]

\* variant: the newest entries are evicted (the comparison of the sort is reversed)
evictLRUIfNeeded_newestFirst(s, maxEntries, t, failAt) ==
    LET cacheKeys == {k \in idbKeys(s) : isCacheKey(k)}
        live == {k \in cacheKeys : t <= s[k].expiresAt}
        newest == CHOOSE q \in SUBSET live :
                     /\ Cardinality(q) = Cardinality(live) - maxEntries
                     /\ \A a \in q, b \in live \ q : s[a].lastAccess >= s[b].lastAccess
    IN IF Cardinality(live) <= maxEntries THEN [threw |-> failAt # 0, store |-> s]
       ELSE [threw |-> failAt # 0,
             store |-> [x \in DOMAIN s \ ((cacheKeys \ live) \cup newest) |-> s[x]]]

\* evictLRUIfNeeded(maxEntries) at time t; store operation number failAt
\* rejects (0: none does): whether the pass rejects, and the store it leaves
evictLRUIfNeeded(s, maxEntries, t, failAt) ==
    LET ops == evictStoreOps(s, maxEntries, t)
        made == IF failAt = 0 THEN ops ELSE SubSeq(ops, 1, failAt - 1)
        deleted == {made[i].key : i \in {j \in 1..Len(made) : made[j].kind = "del"}}
    IN [threw |-> failAt # 0,
        store |-> [x \in DOMAIN s \ deleted |-> s[x]]]

\* variant: an entry counts as expired from the instant expiresAt on
getStats_expiredAtDeadline(s, t, fault) ==
    LET cacheKeys == {k \in idbKeys(s) : isCacheKey(k)} IN
    IF fault = "read" THEN [totalEntries |-> 0, expiredEntries |-> 0, validEntries |-> 0]
    ELSE [totalEntries |-> Cardinality(cacheKeys),
          expiredEntries |-> Cardinality({k \in cacheKeys : t >= s[k].expiresAt}),
          validEntries |-> Cardinality({k \in cacheKeys : ~(t >= s[k].expiresAt)})]

\* getStats() at time t; a rejected keys() or get() makes it return zeros
getStats(s, t, fault) ==
    LET cacheKeys == {k \in idbKeys(s) : isCacheKey(k)} IN
    IF fault = "read" THEN [totalEntries |-> 0, expiredEntries |-> 0, validEntries |-> 0]
    ELSE [totalEntries |-> Cardinality(cacheKeys),
          expiredEntries |-> Cardinality({k \in cacheKeys : t > s[k].expiresAt}),
          validEntries |-> Cardinality({k \in cacheKeys : ~(t > s[k].expiresAt)})]

\* the store operations of clear(), in order: keys(), then a delete per
\* namespaced key
clearStoreOps(s) ==
    LET cacheKeys == SelectSeq(idbKeysInOrder(s), isCacheKey) IN
    <<[kind |-> "keys", key |-> <<>>]>>
    \o [i \in 1..Len(cacheKeys) |-> [kind |-> "del", key |-> cacheKeys[i]]]

\* variant: the whole store is emptied (idbClear), other applications' keys included
clear_wholeStore(s, failAt) ==
    [threw |-> failAt # 0, store |-> IF failAt = 0 THEN <<>> ELSE s]

\* clear(); store operation number failAt rejects (0: none does): whether
\* clear rejects, and the store it leaves
clear(s, failAt) ==
    LET ops == clearStoreOps(s)
        made == IF failAt = 0 THEN ops ELSE SubSeq(ops, 1, failAt - 1)
        deleted == {made[i].key : i \in {j \in 1..Len(made) : made[j].kind = "del"}}
    IN [threw |-> failAt # 0,
        store |-> [x \in DOMAIN s \ deleted |-> s[x]]]

(***************************************************************************)
(* types.ts: the domain type guards                                        *)
(***************************************************************************)
Endangerments == {<<"LC">>, <<"NT">>, <<"VU">>, <<"EN">>, <<"CR">>}

\* isSpecies(obj)
isSpecies(obj) ==
    /\ typeof(obj) = "object"
    /\ obj.type # "null"
    /\ typeof(Prop(obj, "id")) = "string"
    /\ typeof(Prop(obj, "name")) = "string"
    /\ typeof(Prop(obj, "endangerment")) = "string"
    /\ Prop(obj, "endangerment").s \in Endangerments
    /\ typeof(Prop(obj, "bullets")) = "object"
    /\ Prop(obj, "bullets").type # "null"
    /\ typeof(Prop(Prop(obj, "bullets"), "habitat")) = "string"
    /\ typeof(Prop(Prop(obj, "bullets"), "diet")) = "string"
    /\ typeof(Prop(Prop(obj, "bullets"), "personality")) = "string"
    /\ isArray(Prop(obj, "photoURLs"))
    /\ \A i \in 1..Len(Prop(obj, "photoURLs").items) :
          typeof(Prop(obj, "photoURLs").items[i]) = "string"

\* isSpeciesArray(obj), and the `Array.isArray(x) && x.every(isSpecies)` of search
isSpeciesArray(obj) ==
    /\ isArray(obj)
    /\ \A i \in 1..Len(obj.items) : isSpecies(obj.items[i])

(***************************************************************************)
(* preload.ts: the bundled dataset (public/data/core-species.json).  The   *)
(* seven identifiers are those preload.test.ts expects, in that order; the *)
(* texts are shortened to the symbols the searches of this model use.      *)
(***************************************************************************)
Species(id, name, endangerment, habitat, diet, personality) ==
    Obj([id |-> Str(<<id>>),
         name |-> Str(name),
         endangerment |-> Str(<<endangerment>>),
         bullets |-> Obj([habitat |-> Str(habitat), diet |-> Str(diet),
                          personality |-> Str(personality)]),
         photoURLs |-> Arr(<<Str(<<"/images/", id, ".jpg">>)>>)])

coreSpecies ==
    << Species("sea-otter", <<"Sea", " ", "Otter">>, "EN",
               <<"Kelp", " ", "forests", " ", "coastal">>, <<"urchins">>, <<"playful">>),
       Species("giant-pacific-octopus", <<"Giant", " ", "Pacific", " ", "Octopus">>, "LC",
               <<"rocky", " ", "dens">>, <<"crabs">>, <<"curious">>),
       Species("harbor-seal", <<"Harbor", " ", "Seal">>, "LC",
               <<"coastal", " ", "waters">>, <<"fish">>, <<"shy">>),
       Species("wolf-eel", <<"Wolf", " ", "Eel">>, "LC",
               <<"rocky", " ", "reefs">>, <<"urchins">>, <<"gentle">>),
       Species("rockfish", <<"Rockfish">>, "VU",
               <<"rocky", " ", "reefs">>, <<"fish">>, <<"patient">>),
       Species("indo-pacific-leopard-shark", <<"Leopard", " ", "Shark">>, "EN",
               <<"sandy", " ", "flats">>, <<"crabs">>, <<"calm">>),
       Species("moon-jelly", <<"Moon", " ", "Jelly">>, "LC",
               <<"open", " ", "waters">>, <<"plankton">>, <<"drifting">>) >>

CORE_SPECIES_COUNT == 7

\* properties every `{}` inherits from Object.prototype
ObjectPrototype(name) ==
    CASE name = <<"constructor">> -> Fn("Object")
      [] name = <<"toString">> -> Fn("toString")
      [] name = <<"__proto__">> -> Obj(<<>>)
      [] OTHER -> Undefined

\* coreSpeciesById[id]: a property read on the plain object the reduce builds
coreSpeciesById(id) ==
    IF \E i \in 1..Len(coreSpecies) : Prop(coreSpecies[i], "id").s = id
    THEN coreSpecies[CHOOSE i \in 1..Len(coreSpecies) :
                        /\ Prop(coreSpecies[i], "id").s = id
                        /\ \A j \in (i + 1)..Len(coreSpecies) :
                              Prop(coreSpecies[j], "id").s # id]
    ELSE ObjectPrototype(id)

\* variant: the lookup object is never filled with the bundled records
getCoreSpeciesById_unfilled(id) == ObjectPrototype(id)

\* getCoreSpeciesById(id)
getCoreSpeciesById(id) == coreSpeciesById(id)

\* validateCoreSpecies: what the module load requires of the dataset
validateCoreSpecies(data) ==
    /\ isSpeciesArray(Arr(data))
    /\ Len(data) = CORE_SPECIES_COUNT
    /\ \A i \in 1..Len(data) :
          /\ Truthy(Prop(data[i], "id")) /\ Truthy(Prop(data[i], "name"))
          /\ Truthy(Prop(Prop(data[i], "bullets"), "habitat"))
          /\ Truthy(Prop(Prop(data[i], "bullets"), "diet"))
          /\ Truthy(Prop(Prop(data[i], "bullets"), "personality"))
          /\ Prop(data[i], "photoURLs").items # <<>>

(***************************************************************************)
(* backoff.ts                                                              *)
(***************************************************************************)
maxRetries == 2
baseDelayMs == 100
maxDelayMs == 2000

RECURSIVE pow2(_)
pow2(n) == IF n = 0 THEN 1 ELSE 2 * pow2(n - 1)

Min(a, b) == IF a <= b THEN a ELSE b

\* Math.min(baseDelayMs * Math.pow(2, attempt), maxDelayMs)
delay_uncapped(baseDelay, maxDelay, attempt) == baseDelay * pow2(attempt)
delay(baseDelay, maxDelay, attempt) == Min(baseDelay * pow2(attempt), maxDelay)

\* the delay withBackoff waits after failed attempt number `attempt`
backoffDelay(attempt) == delay(baseDelayMs, maxDelayMs, attempt)

\* a destructuring default applies when the option is undefined
optionOr(option, default) == IF option = Undefined THEN default ELSE option.n

\* variant: the loop never takes the failure of an attempt for the last
lastAttempt_never(attempt, retries) == FALSE

\* the loop leaves after the failure of attempt number maxRetries
lastAttempt_oneFewer(attempt, retries) == attempt + 1 >= retries
lastAttempt(attempt, retries) == attempt = retries

\* new Error(message), and error instanceof Error
Error(message) == [type |-> "error", message |-> message]
instanceofError(v) == v.type = "error"

\* String(value) for the values an operation is rejected with
String(v) ==
    CASE v.type = "string" -> v.s
      [] v.type = "number" -> <<ToString(v.n)>>
      [] v.type = "null" -> <<"null">>
      [] v.type = "undefined" -> <<"undefined">>
      [] v.type = "boolean" -> IF v.b THEN <<"true">> ELSE <<"false">>
      [] OTHER -> <<"[object Object]">>

\* lastError = error instanceof Error ? error : new Error(String(error))
toError_firstKept(last, error) ==
    IF last # Undefined THEN last
    ELSE IF instanceofError(error) THEN error ELSE Error(String(error))
toError(last, error) == IF instanceofError(error) THEN error ELSE Error(String(error))

(***************************************************************************)
(* repository.ts: keys, TTLs and pure helpers                              *)
(***************************************************************************)
CACHE_KEYS_species(id) == <<"species:">> \o id
CACHE_KEYS_population(id) == <<"population:">> \o id
CACHE_KEYS_etag(url) == <<"etag:">> \o url
CACHE_KEYS_searchResults(query) == <<"search:">> \o query

CACHE_TTL ==
    [species |-> 24 * 60 * 60 * 1000,
     population |-> 6 * 60 * 60 * 1000,
     etag |-> 24 * 60 * 60 * 1000,
     search |-> 30 * 60 * 1000]

\* a lone surrogate: a string encodeURIComponent refuses (URIError)
LoneSurrogate == "\\uD800"

encodeURIComponentThrows(s) == \E i \in 1..Len(s) : s[i] = LoneSurrogate

EncodeSym(c) ==
    CASE c = " " -> "%20"
      [] c = "\t" -> "%09"
      [] OTHER -> c

encodeURIComponent(s) == [i \in 1..Len(s) |-> EncodeSym(s[i])]

\* the request URL of each accessor
apiUrl(op, arg) ==
    CASE op = "getSpecies" -> <<"/api/species/">> \o encodeURIComponent(arg)
      [] op = "search" -> <<"/api/search?q=">> \o encodeURIComponent(arg)
      [] op = "getPopulation" -> <<"/api/population/">> \o encodeURIComponent(arg)

\* the data key of each accessor
dataKey(op, arg) ==
    CASE op = "getSpecies" -> CACHE_KEYS_species(arg)
      [] op = "search" -> CACHE_KEYS_searchResults(arg)
      [] op = "getPopulation" -> CACHE_KEYS_population(arg)

\* variant: every data key gets the population lifetime
dataTtl_populationForAll(op) == CACHE_TTL.population

\* the lifetime of each accessor's data entry
dataTtl(op) ==
    CASE op = "getSpecies" -> CACHE_TTL.species
      [] op = "search" -> CACHE_TTL.search
      [] op = "getPopulation" -> CACHE_TTL.population

\* the text fuzzySearchPreload matches against
searchableText(species) ==
    toLowerCase(joinSpace(<< Prop(species, "name").s,
                             Prop(Prop(species, "bullets"), "habitat").s,
                             Prop(Prop(species, "bullets"), "diet").s,
                             Prop(Prop(species, "bullets"), "personality").s >>))

\* variant: the query is trimmed but not lower-cased
fuzzySearchPreload_caseSensitive(query) ==
    IF trim(query) = <<>> THEN Arr(<<>>)
    ELSE LET searchTerm == trim(query)
             matches(species) == includes(searchableText(species), searchTerm)
         IN Arr(SelectSeq(coreSpecies, matches))

\* fuzzySearchPreload(query): the matching bundled records, in bundled order
fuzzySearchPreload(query) ==
    IF trim(query) = <<>> THEN Arr(<<>>)
    ELSE LET searchTerm == trim(toLowerCase(query))
             matches(species) == includes(searchableText(species), searchTerm)
         IN Arr(SelectSeq(coreSpecies, matches))

\* variant: remote records are appended without the identifier test
mergeSearchResults_noDedup(local, remote) == local \o remote

\* mergeSearchResults(local, remote) on the two item sequences
mergeSearchResults(local, remote) ==
    LET localIds == {Prop(local[i], "id") : i \in 1..Len(local)}
        fresh(species) == Prop(species, "id") \notin localIds
    IN local \o SelectSeq(remote, fresh)

\* variant: the guard tests the argument without trimming it
guard_noTrim(arg) ==
    CASE arg.type \in {"null", "undefined"} -> "blank"
      [] arg.type = "string" -> IF arg.s = <<>> THEN "blank" ELSE "pass"
      [] OTHER -> "throw"

\* the `!id?.trim()` guard: "blank" (return at once), "pass", or "throw"
\* (trim is not a function of a number, a boolean or an object)
guard(arg) ==
    CASE arg.type \in {"null", "undefined"} -> "blank"
      [] arg.type = "string" -> IF trim(arg.s) = <<>> THEN "blank" ELSE "pass"
      [] OTHER -> "throw"

\* the value an accessor returns for a blank argument, and when every tier fails
emptyResult(op) == IF op = "getSpecies" THEN Undefined ELSE Arr(<<>>)

\* variant: a cached list counts only when it has elements
usable_nonEmpty(op, v) ==
    IF op = "getSpecies" THEN Truthy(v) /\ isSpecies(v)
    ELSE Truthy(v) /\ isArray(v) /\ v.items # <<>>

\* the `cached && isSpecies(cached)` / `cached && Array.isArray(cached)` tests
usable(op, v) ==
    IF op = "getSpecies" THEN Truthy(v) /\ isSpecies(v) ELSE Truthy(v) /\ isArray(v)

\* the shape test of a parsed response body
validBody(op, data) ==
    CASE op = "getSpecies" -> isSpecies(data)
      [] op = "search" -> isSpeciesArray(data)
      [] op = "getPopulation" -> isArray(data)

\* variant: every status below 400 counts as ok
responseOk_below400(status) == status >= 200 /\ status <= 399

\* Response.ok
responseOk(status) == status >= 200 /\ status <= 299

(***************************************************************************)
(* The remote API and the arguments of the accessor calls                  *)
(***************************************************************************)
RemoteOtter ==
    Species("sea-otter", <<"Sea", " ", "Otter", " ", "(API)">>, "VU",
            <<"Kelp", " ", "forests">>, <<"urchins">>, <<"social">>)
RemoteTest ==
    Species("test-species", <<"Test", " ", "Species">>, "LC",
            <<"coastal", " ", "labs">>, <<"test", " ", "diet">>, <<"tested">>)
InvalidObj == Obj([invalid |-> Str(<<"data">>)])
Malformed == [type |-> "malformed"]
Point(year, count) == Obj([year |-> Num(year), count |-> Num(count)])

ETag1 == Str(<<"\"abc123\"">>)

\* the parsed bodies a 2xx answer may carry, per accessor
Bodies(op) ==
    CASE op = "getSpecies" -> {RemoteOtter, RemoteTest, InvalidObj, Malformed}
      [] op = "search" ->
            {Arr(<<RemoteTest, RemoteOtter, RemoteTest>>), Arr(<<>>),
             Arr(<<RemoteTest, InvalidObj>>), Str(<<"invalid", " ", "data">>)}
      [] op = "getPopulation" ->
            {Arr(<<Point(2020, 1000), Point(2021, 1100)>>), Arr(<<InvalidObj>>),
             Str(<<"not", " ", "an", " ", "array">>), Malformed}

NoResponse == [status |-> 0, etag |-> Null, body |-> Undefined]

\* what one fetch attempt may produce: a network error (status 0) or a response
FetchOutcomes(op) ==
    {NoResponse}
    \cup {[status |-> 200, etag |-> e, body |-> b] : e \in {Null, ETag1}, b \in Bodies(op)}
    \cup {[status |-> 304, etag |-> e, body |-> Undefined] : e \in {Null, ETag1}}
    \cup {[status |-> 404, etag |-> Null, body |-> Undefined]}

Accessors == {"getSpecies", "search", "getPopulation"}

Args(op) ==
    CASE op = "getSpecies" ->
            {Str(<<"sea-otter">>), Str(<<"test-species">>), Str(<<"constructor">>),
             Str(<<LoneSurrogate>>), Str(<<>>), Str(<<" ", "\t">>),
             Null, Undefined, Num(42), Bool(FALSE), Obj(<<>>)}
      [] op = "search" ->
            {Str(<<"Otter">>), Str(<<" ", "coastal">>), Str(<<"otter", " ", "kelp">>),
             Str(<<"zebra">>), Str(<<>>), Str(<<"\t">>)}
      [] op = "getPopulation" ->
            {Str(<<"sea-otter">>), Str(<<"test-species">>), Str(<<>>), Str(<<" ">>)}

(***************************************************************************)
(* An accessor call: its position and its locals, with a record of what it *)
(* did                                                                     *)
(***************************************************************************)
NoEntry == [value |-> Undefined, expiresAt |-> -1, lastAccess |-> -1]
\* the entry found under the data key by the read after a 304, when the read
\* was made and whether a store operation failed in it
NoReread == [entry |-> NoEntry, at |-> 0, failed |-> FALSE]

NewCall(op, arg) ==
    [op |-> op, arg |-> arg, target |-> op, pc |-> "idle",
     cacheKey |-> <<>>, etagKey |-> <<>>, url |-> <<>>,
     localResults |-> Undefined, cachedETag |-> Undefined,
     attempt |-> 0, response |-> NoResponse,
     result |-> Undefined, outcome |-> "pending", tier |-> "none",
     \* what the call did
     http |-> 0,            \* fetch invocations
     requests |-> <<>>,     \* the URL and headers of each request made
     etag0 |-> NoEntry,     \* the entry under the ETag key when the headers were prepared
     netErrors |-> 0,       \* fetch invocations that failed at network level
     statuses |-> <<>>,     \* what each fetch invocation produced: a status, 0 for a network error
     delays |-> <<>>,       \* the backoff delays waited
     etagReads |-> 0,       \* cache.get calls on the etag key
     dataReads |-> 0,       \* cache.get calls on the data key
     dataSets |-> 0,        \* cache.set calls on the data key
     bodyReads |-> 0,       \* response.json() calls
     reread |-> NoReread,   \* the second read of the data key, after a 304
     storeFailed |-> FALSE, \* some store operation failed during the call
     entry0 |-> NoEntry,    \* the entry under the data key when the call looked it up
     startedAt |-> 0,       \* Date.now() when the call was made
     doneAt |-> 0]          \* Date.now() when it resolved

Idle == NewCall("none", Undefined)

\* the call resolves with `result`, obtained from `tier`
Done(c, result, tier) ==
    [c EXCEPT !.pc = "done", !.outcome = "resolved", !.result = result, !.tier = tier,
              !.doneAt = now]

\* variant: getPopulation goes on to the bundled fallback as the others do
fallThrough_bundledForAll(c) == [c EXCEPT !.pc = "fallback"]

\* the point after the inner try/catch: getPopulation returns [] at once,
\* getSpecies and search go on to their bundled fallback
fallThrough(c) ==
    IF c.op = "getPopulation" THEN Done(c, Arr(<<>>), "empty")
    ELSE [c EXCEPT !.pc = "fallback"]

(***************************************************************************)
(* Bounds and inputs of the direct cache operations                        *)
(***************************************************************************)
MaxTime == 3
MaxTtl == 2
MaxOps == 3

DirectKeys == {<<"k1">>, <<"k2">>}
DirectValues == {Str(<<"v1">>), Num(0)}
TTLs == 0..MaxTtl
ForeignKey == <<"other-app:settings">>

\* lastSet[k]: the most recent successful set of k, and what happened to k since:
\* "fresh" (nothing), "read" (successful reads only) or "other"
NoSet == [op |-> "none", at |-> 0, ttl |-> 0, value |-> Undefined, since |-> "other"]
\* lastOp: the operation, its key and time, the value returned (or the argument
\* of set and evictLRUIfNeeded), whether a store operation failed in it and
\* which, whether the call rejected and with which error, and the store before
\* a clear, an eviction pass or a rejected set
NoOp == [op |-> "none", key |-> <<>>, at |-> 0, value |-> Undefined, failed |-> FALSE,
         fault |-> "none", rejected |-> FALSE, error |-> NoError,
         since |-> "other", before |-> <<>>]

\* the kind of failure when store operation number failAt of ops rejects
faultOf(ops, failAt) ==
    IF failAt = 0 THEN "none" ELSE IF ops[failAt].kind = "del" THEN "write" ELSE "read"

(***************************************************************************)
(* Initial state: an empty cache beside another application's data         *)
(***************************************************************************)
\* the state of the stand-alone withBackoff call and of the concurrent cache calls
sideVars == <<run, race, conc, view>>

\* logical flows that call the cache concurrently, and how many calls they issue
MaxFlows == 2
MaxIssued == 3
Flows == 1..MaxFlows

\* a flow: the call it is in, the store operation that call has pending
\* ("read", "set", "del"), and the entry the call holds; queue: the flows with
\* a pending store operation in the order of issue, which is the order in
\* which the store performs them
NoFlow == [op |-> "none", pending |-> "none", key |-> <<>>, entry |-> NoEntry]
NoRace ==
    [flows |-> [f \in Flows |-> NoFlow],
     issued |-> 0,
     queue |-> <<>>,
     lastDone |-> [k \in DirectKeys |-> NoEntry]]

NoRun ==
    [pc |-> "idle", maxRetries |-> 0, baseDelayMs |-> 0, maxDelayMs |-> 0, options |-> Undefined,
     plan |-> 0, attempt |-> 0, invocations |-> 0, failures |-> <<>>, delays |-> <<>>,
     lastError |-> Undefined, outcome |-> "none", result |-> Undefined, error |-> Undefined,
     startedAt |-> 0, doneAt |-> 0]

\* a getSpecies call of a concurrent flow: its position and its locals
NoSpeciesCall ==
    [pc |-> "idle", attempt |-> 0, cachedETag |-> Undefined, response |-> Undefined,
     result |-> Undefined, tier |-> "none"]
NoConc == [f \in Flows |-> NoSpeciesCall]

\* no component mounted.  component: which one; isOpen, speciesId: the props of
\* InfoCard, speciesId also standing for the route parameter of DeeperDive;
\* species, loading, error: the useState cells; pending: the identifiers of the
\* getSpecies calls the effect runs are suspended on; renders: how often the
\* props or the route changed
NoView ==
    [component |-> "none", isOpen |-> FALSE, speciesId |-> Null,
     species |-> Null, loading |-> FALSE, error |-> Null,
     pending |-> <<>>, renders |-> 0]

Init ==
    /\ conc = NoConc
    /\ view = NoView
    /\ run = NoRun
    /\ race = NoRace
    /\ store = [x \in {ForeignKey} |-> Str(<<"dark">>)]
    /\ now = 0
    /\ nticks = 0
    /\ nops = 0
    /\ lastOp = NoOp
    /\ lastSet = [k \in DirectKeys |-> NoSet]
    /\ call = Idle
    /\ prev = Idle
    /\ ncalls = 0
    /\ nfaults = 0

repoVars == <<call, prev, ncalls, nticks, nfaults>>

(***************************************************************************)
(* Direct cache operations, each one call of the cache engine run to       *)
(* completion                                                              *)
(***************************************************************************)
SetOp ==
    \E key \in DirectKeys, value \in DirectValues, ttl \in TTLs, fault \in {"none", "write"} :
        LET r == set(store, key, value, ttl, now, fault) IN
        /\ nops < MaxOps
        /\ store' = r.store
        /\ lastOp' = [op |-> "set", key |-> key, at |-> now, value |-> value,
                      failed |-> fault # "none", fault |-> fault,
                      rejected |-> r.threw, error |-> r.error,
                      since |-> lastSet[key].since,
                      before |-> IF fault # "none" THEN store ELSE <<>>]
        /\ lastSet' = [lastSet EXCEPT ![key] =
                          IF fault # "none" \/ r.threw THEN [@ EXCEPT !.since = "other"]
                          ELSE [op |-> "set", at |-> now, ttl |-> ttl, value |-> value,
                                since |-> "fresh"]]
        /\ nops' = nops + 1
        /\ UNCHANGED <<now, repoVars, sideVars>>

GetOp ==
    \E key \in DirectKeys, fault \in StoreFaults :
        LET r == get(store, key, now, fault)
            hit == fault = "none" /\ idbHas(r.store, getCacheKey(key))
        IN /\ nops < MaxOps
           /\ fault = "write" => getWrites(store, key)
           /\ store' = r.store
           /\ lastOp' = [op |-> "get", key |-> key, at |-> now, value |-> r.value,
                         failed |-> fault # "none", fault |-> fault,
                         rejected |-> r.threw, error |-> NoError,
                         since |-> lastSet[key].since, before |-> <<>>]
           /\ lastSet' = [lastSet EXCEPT ![key].since =
                             IF hit /\ @ \in {"fresh", "read"} THEN "read" ELSE "other"]
           /\ nops' = nops + 1
           /\ UNCHANGED <<now, repoVars, sideVars>>

ClearOp ==
    \E failAt \in 0..Len(clearStoreOps(store)) :
        LET r == clear(store, failAt) IN
        /\ nops < MaxOps
        /\ store' = r.store
        /\ lastOp' = [op |-> "clear", key |-> <<>>, at |-> now, value |-> Undefined,
                      failed |-> failAt # 0, fault |-> faultOf(clearStoreOps(store), failAt),
                      rejected |-> r.threw,
                      error |-> IF r.threw THEN StoreError ELSE NoError,
                      since |-> "other", before |-> store]
        /\ lastSet' = [k \in DirectKeys |-> [lastSet[k] EXCEPT !.since = "other"]]
        /\ nops' = nops + 1
        /\ UNCHANGED <<now, repoVars, sideVars>>

\* getStats(): it only reads the store
StatsOp ==
    \E fault \in {"none", "read"} :
        /\ nops < MaxOps
        /\ lastOp' = [op |-> "getStats", key |-> <<>>, at |-> now,
                      value |-> getStats(store, now, fault),
                      failed |-> fault # "none", fault |-> fault,
                      rejected |-> FALSE, error |-> NoError,
                      since |-> "other", before |-> store]
        /\ nops' = nops + 1
        /\ UNCHANGED <<store, now, lastSet, repoVars, sideVars>>

TickCache ==
    /\ now < MaxTime
    /\ now' = now + 1
    /\ UNCHANGED <<store, nops, lastOp, lastSet, repoVars, sideVars>>

NextCache == SetOp \/ GetOp \/ ClearOp \/ StatsOp \/ TickCache

SpecCache == Init /\ [][NextCache]_vars

(***************************************************************************)
(* Eviction passes.  The store outlives a page load, so a session starts   *)
(* with whatever entries earlier sessions left: every entry was written at *)
(* or before the start, last read between its write and its expiry.        *)
(***************************************************************************)
StartTime == 1
MaxEntries == 3

EvictKeys == DirectKeys \cup {<<"k3">>}

\* the entries a key may hold at the start
LeftEntries ==
    {[value |-> Str(<<"v1">>), expiresAt |-> e, lastAccess |-> a] :
        a \in 0..StartTime, e \in 0..(StartTime + 1)}

LeftStores ==
    UNION {[{ForeignKey} \cup {getCacheKey(k) : k \in ks} -> LeftEntries \cup {Str(<<"dark">>)}] :
              ks \in SUBSET EvictKeys}

InitEvict ==
    /\ conc = NoConc
    /\ view = NoView
    /\ run = NoRun
    /\ race = NoRace
    /\ store \in LeftStores
    /\ store[ForeignKey] = Str(<<"dark">>)
    /\ \A k \in DOMAIN store \ {ForeignKey} :
          store[k] \in LeftEntries /\ store[k].lastAccess <= store[k].expiresAt
    /\ now = StartTime
    /\ nticks = 0
    /\ nops = 0
    /\ lastOp = NoOp
    /\ lastSet = [k \in DirectKeys |-> NoSet]
    /\ call = Idle
    /\ prev = Idle
    /\ ncalls = 0
    /\ nfaults = 0

\* one evictLRUIfNeeded(maxEntries) pass, run to completion or to the store
\* operation that rejects
EvictOp ==
    \E maxEntries \in 0..MaxEntries :
        \E failAt \in 0..Len(evictStoreOps(store, maxEntries, now)) :
            LET r == evictLRUIfNeeded(store, maxEntries, now, failAt) IN
            /\ nops < MaxOps
            /\ store' = r.store
            /\ lastOp' = [op |-> "evict", key |-> <<>>, at |-> now,
                          value |-> Num(maxEntries), failed |-> failAt # 0,
                          fault |-> faultOf(evictStoreOps(store, maxEntries, now), failAt),
                          rejected |-> r.threw,
                          error |-> IF r.threw THEN StoreError ELSE NoError,
                          since |-> "other", before |-> store]
            /\ lastSet' = [k \in DirectKeys |-> [lastSet[k] EXCEPT !.since = "other"]]
            /\ nops' = nops + 1
            /\ UNCHANGED <<now, repoVars, sideVars>>

NextEvict == GetOp \/ EvictOp \/ TickCache

SpecEvict == InitEvict /\ [][NextEvict]_vars

(***************************************************************************)
(* Bounds of the accessor calls                                            *)
(***************************************************************************)
MaxCalls == 2
MaxTicks == 1
MaxFaults == 1

\* how far the clock may jump between two calls: past each data TTL
TickSteps == {CACHE_TTL.search + 1, CACHE_TTL.population + 1, CACHE_TTL.species + 1}

directVars == <<nops, lastOp, lastSet>>

\* a store operation of an accessor call may fail while the budget lasts
mayFail(fault) == fault # "none" => nfaults < MaxFaults
countFault(fault) == nfaults' = IF fault # "none" THEN nfaults + 1 ELSE nfaults

(***************************************************************************)
(* repository.ts: getSpecies, search and getPopulation, one action per     *)
(* suspension point                                                        *)
(***************************************************************************)

\* the call is made: the blank-argument guard, then the data key
Invoke ==
    /\ call.pc \in {"idle", "done"}
    /\ ncalls < MaxCalls
    /\ \E op \in Accessors : \E arg \in Args(op) :
          \* the calls of one behaviour address one resource
          /\ call.pc = "done" => (op = call.target /\ arg = call.arg)
          /\ LET c0 == [NewCall(op, arg) EXCEPT !.startedAt = now]
                 g == guard(arg)
             IN call' = CASE g = "blank" -> Done(c0, emptyResult(op), "guard")
                          [] g = "throw" -> [c0 EXCEPT !.pc = "done",
                                                       !.outcome = "rejected",
                                                       !.tier = "throw",
                                                       !.doneAt = now]
                          [] OTHER -> [c0 EXCEPT !.pc = "cacheGet",
                                                 !.cacheKey = dataKey(op, arg.s)]
    /\ prev' = call
    /\ ncalls' = ncalls + 1
    /\ UNCHANGED <<store, now, nticks, nfaults, directVars, sideVars>>

\* after a cache miss: search computes its local results, then the URL is built
afterMiss(c) ==
    LET c1 == IF c.op = "search"
              THEN [c EXCEPT !.localResults = fuzzySearchPreload(c.arg.s)]
              ELSE c
    IN IF encodeURIComponentThrows(c.arg.s) THEN fallThrough(c1)
       ELSE [c1 EXCEPT !.pc = "etagGet",
                       !.url = apiUrl(c.op, c.arg.s),
                       !.etagKey = CACHE_KEYS_etag(apiUrl(c.op, c.arg.s))]

\* variant: the accessor asks the API without looking in the cache first
CacheLookup_skipped ==
    /\ call.pc = "cacheGet"
    /\ call' = afterMiss(call)
    /\ UNCHANGED <<store, now, nticks, prev, ncalls, nfaults, directVars, sideVars>>

\* `const cached = await cache.get(cacheKey)` and the test of what it returned
CacheLookup ==
    /\ call.pc = "cacheGet"
    /\ \E fault \in StoreFaults :
          /\ fault = "write" => getWrites(store, call.cacheKey)
          /\ mayFail(fault)
          /\ countFault(fault)
          /\ LET r == get(store, call.cacheKey, now, fault)
                 c1 == [call EXCEPT !.dataReads = @ + 1,
                                    !.storeFailed = @ \/ fault # "none",
                                    !.entry0 = IF idbHas(store, getCacheKey(call.cacheKey))
                                               THEN store[getCacheKey(call.cacheKey)]
                                               ELSE NoEntry]
             IN /\ store' = r.store
                /\ call' = IF usable(call.op, r.value) THEN Done(c1, r.value, "cache")
                           ELSE afterMiss(c1)
    /\ UNCHANGED <<now, nticks, prev, ncalls, directVars, sideVars>>

\* variant: the cached validator is read but never put into the headers
requestHeaders_noValidator(cachedETag) ==
    [ContentType |-> <<"application/json">>, IfNoneMatch |-> Undefined]

\* fetchWithETag: the headers of the request (an absent header is undefined)
requestHeaders(cachedETag) ==
    [ContentType |-> <<"application/json">>,
     IfNoneMatch |-> IF Truthy(cachedETag) THEN cachedETag ELSE Undefined]

\* fetchWithETag: `const cachedETag = await cache.get(etagKey)`
ETagLookup ==
    /\ call.pc = "etagGet"
    /\ \E fault \in StoreFaults :
          /\ fault = "write" => getWrites(store, call.etagKey)
          /\ mayFail(fault)
          /\ countFault(fault)
          /\ LET r == get(store, call.etagKey, now, fault) IN
             /\ store' = r.store
             /\ call' = [call EXCEPT !.pc = "fetch", !.cachedETag = r.value,
                                     !.etagReads = @ + 1,
                                     !.etag0 = IF idbHas(store, getCacheKey(call.etagKey))
                                               THEN store[getCacheKey(call.etagKey)]
                                               ELSE NoEntry,
                                     !.storeFailed = @ \/ fault # "none"]
    /\ UNCHANGED <<now, nticks, prev, ncalls, directVars, sideVars>>

\* variant: the first failure is final, nothing is retried
operationFailed_noRetry(c) == fallThrough(c)

\* withBackoff: the operation failed on attempt c.attempt
operationFailed(c) ==
    IF c.attempt = maxRetries THEN fallThrough(c)
    ELSE [c EXCEPT !.attempt = @ + 1, !.delays = Append(@, backoffDelay(c.attempt))]

\* the time the failed attempt costs: the backoff delay, unless it was the last
failureDelay(c) == IF c.attempt = maxRetries THEN 0 ELSE backoffDelay(c.attempt)

\* variant: a response with an error status is thrown like a network error
fetchRejects_onHttpError(out) == out.status = 0 \/ out.status >= 400

\* fetch rejects on a network error only; any response, whatever its status, resolves
fetchRejects(out) == out.status = 0

\* one attempt of the operation withBackoff retries: fetch, then the ETag bookkeeping
Fetch ==
    /\ call.pc = "fetch"
    /\ \E out \in FetchOutcomes(call.op), fault \in {"none", "write"} :
          LET sent == [url |-> call.url, headers |-> requestHeaders(call.cachedETag)]
              c1 == [call EXCEPT !.http = @ + 1, !.requests = Append(@, sent),
                                 !.statuses = Append(@, out.status)]
              w == set(store, call.etagKey, out.etag, CACHE_TTL.etag, now, fault)
          IN /\ mayFail(fault)
             /\ countFault(fault)
             /\ IF fetchRejects(out)
                THEN /\ fault = "none"
                     /\ store' = store
                     /\ call' = operationFailed([c1 EXCEPT !.netErrors = @ + 1])
                     /\ now' = now + failureDelay(c1)
                ELSE IF Truthy(out.etag)
                THEN /\ store' = w.store
                     /\ IF w.threw
                        THEN /\ call' = operationFailed([c1 EXCEPT !.storeFailed = TRUE])
                             /\ now' = now + failureDelay(c1)
                        ELSE /\ call' = [c1 EXCEPT !.pc = "response", !.response = out]
                             /\ now' = now
                ELSE /\ fault = "none"
                     /\ store' = store
                     /\ call' = [c1 EXCEPT !.pc = "response", !.response = out]
                     /\ now' = now
    /\ UNCHANGED <<nticks, prev, ncalls, directVars, sideVars>>

\* `if (response.status === 304)`: the data key is read again
Revalidated ==
    /\ call.pc = "response"
    /\ call.response.status = 304
    /\ \E fault \in StoreFaults :
          /\ fault = "write" => getWrites(store, call.cacheKey)
          /\ mayFail(fault)
          /\ countFault(fault)
          /\ LET r == get(store, call.cacheKey, now, fault)
                 c1 == [call EXCEPT !.dataReads = @ + 1,
                                    !.storeFailed = @ \/ fault # "none",
                                    !.reread = [entry |-> IF idbHas(store, getCacheKey(call.cacheKey))
                                                          THEN store[getCacheKey(call.cacheKey)]
                                                          ELSE NoEntry,
                                                at |-> now,
                                                failed |-> fault # "none"]]
             IN /\ store' = r.store
                /\ call' = IF usable(call.op, r.value) THEN Done(c1, r.value, "cache304")
                           ELSE IF responseOk(call.response.status)
                           THEN [c1 EXCEPT !.pc = "body"]
                           ELSE fallThrough(c1)
    /\ UNCHANGED <<now, nticks, prev, ncalls, directVars, sideVars>>

\* the value a valid body yields: search merges it behind its local results
bodyValue(c, data) ==
    IF c.op = "search" THEN Arr(mergeSearchResults(c.localResults.items, data.items))
    ELSE data

\* `if (response.ok)`: the body is parsed, validated and cached
ReadBody ==
    /\ call.pc \in {"response", "body"}
    /\ call.pc = "response" => call.response.status # 304
    /\ \E fault \in {"none", "write"} :
          LET data == call.response.body
              c0 == [call EXCEPT !.bodyReads =
                                    IF responseOk(call.response.status) THEN @ + 1 ELSE @]
              valid == /\ responseOk(call.response.status)
                       /\ data # Malformed
                       /\ validBody(call.op, data)
              w == set(store, call.cacheKey, bodyValue(call, data), dataTtl(call.op),
                       now, fault)
          IN /\ mayFail(fault)
             /\ countFault(fault)
             /\ IF valid
                THEN /\ store' = w.store
                     /\ call' = IF w.threw
                                THEN fallThrough([c0 EXCEPT !.dataSets = @ + 1,
                                                              !.storeFailed = TRUE])
                                ELSE Done([c0 EXCEPT !.dataSets = @ + 1],
                                          bodyValue(call, data), "remote")
                ELSE /\ fault = "none"
                     /\ store' = store
                     /\ call' = fallThrough(c0)
    /\ UNCHANGED <<now, nticks, prev, ncalls, directVars, sideVars>>

\* the value the bundled tier offers
bundled(c) ==
    IF c.op = "getSpecies" THEN getCoreSpeciesById(c.arg.s) ELSE c.localResults

\* the value returned by the outer catch
lastResort(c) ==
    IF c.op = "getSpecies" THEN getCoreSpeciesById(c.arg.s)
    ELSE fuzzySearchPreload(c.arg.s)

\* the bundled tier: getSpecies caches and returns the bundled record if there
\* is one, search caches and returns its local results
Fallback ==
    /\ call.pc = "fallback"
    /\ \E fault \in {"none", "write"} :
          LET value == bundled(call)
              w == set(store, call.cacheKey, value, dataTtl(call.op), now, fault)
          IN /\ mayFail(fault)
             /\ countFault(fault)
             /\ IF call.op = "getSpecies" /\ ~Truthy(value)
                THEN /\ fault = "none"
                     /\ store' = store
                     /\ call' = Done(call, Undefined, "none")
                ELSE /\ store' = w.store
                     /\ call' = IF w.threw
                                THEN Done([call EXCEPT !.dataSets = @ + 1,
                                                       !.storeFailed = TRUE],
                                          lastResort(call), "catch")
                                ELSE Done([call EXCEPT !.dataSets = @ + 1], value,
                                          IF call.op = "getSpecies" THEN "bundled"
                                          ELSE "local")
    /\ UNCHANGED <<now, nticks, prev, ncalls, directVars, sideVars>>

\* a direct cache.get of the data key of the call just completed
Lookup ==
    /\ call.pc = "done"
    /\ call.cacheKey # <<>>
    /\ ncalls < MaxCalls
    /\ LET r == get(store, call.cacheKey, now, "none")
           c0 == [NewCall("lookup", call.arg) EXCEPT !.startedAt = now,
                                                     !.target = call.target,
                                                     !.cacheKey = call.cacheKey,
                                                     !.dataReads = 1]
       IN /\ store' = r.store
          /\ call' = Done(c0, r.value, "cache")
    /\ prev' = call
    /\ ncalls' = ncalls + 1
    /\ UNCHANGED <<now, nticks, nfaults, directVars, sideVars>>

\* time passes between two calls
Tick ==
    /\ call.pc = "done"
    /\ nticks < MaxTicks
    /\ \E d \in TickSteps : now' = now + d
    /\ nticks' = nticks + 1
    /\ UNCHANGED <<store, call, prev, ncalls, nfaults, directVars, sideVars>>

Next ==
    \/ Invoke
    \/ CacheLookup
    \/ ETagLookup
    \/ Fetch
    \/ Revalidated
    \/ ReadBody
    \/ Fallback
    \/ Lookup
    \/ Tick

Spec == Init /\ [][Next]_vars

(***************************************************************************)
(* backoff.ts: withBackoff called on its own, one action per suspension    *)
(* point.  The operation fails on its first `plan` invocations and         *)
(* succeeds afterwards; each failure rejects with some value.              *)
(***************************************************************************)
MaxRetriesOption == 3
MaxPlan == 5

RetryOptions == {Undefined} \cup {Num(n) : n \in 0..MaxRetriesOption}
BaseDelayOptions == {Undefined, Num(1000)}
MaxDelayOptions == {Undefined, Num(500), Num(2500)}
FailureValues == {Error(<<"fail 1">>), Error(<<"final fail">>), Str(<<"string error">>), Num(42), Null}
OperationResult == Str(<<"success">>)

InitBackoff ==
    /\ conc = NoConc
    /\ view = NoView
    /\ run = NoRun
    /\ race = NoRace
    /\ store = [x \in {ForeignKey} |-> Str(<<"dark">>)]
    /\ now = 0
    /\ nticks = 0
    /\ nops = 0
    /\ lastOp = NoOp
    /\ lastSet = [k \in DirectKeys |-> NoSet]
    /\ call = Idle
    /\ prev = Idle
    /\ ncalls = 0
    /\ nfaults = 0

backoffFrame == <<store, nticks, nops, lastOp, lastSet, call, prev, ncalls, nfaults, race, conc, view>>

\* withBackoff(operation, options): the options are destructured with their defaults
WithBackoff ==
    /\ run.pc = "idle"
    /\ \E retries \in RetryOptions, base \in BaseDelayOptions, max \in MaxDelayOptions,
          plan \in 0..MaxPlan :
          run' = [NoRun EXCEPT
                    !.pc = "attempt",
                    !.options = [maxRetries |-> retries, baseDelayMs |-> base, maxDelayMs |-> max],
                    !.maxRetries = optionOr(retries, maxRetries),
                    !.baseDelayMs = optionOr(base, baseDelayMs),
                    !.maxDelayMs = optionOr(max, maxDelayMs),
                    !.plan = plan,
                    !.startedAt = now]
    /\ UNCHANGED <<now, backoffFrame>>

\* one pass of the loop body: await operation(), and the catch block
Attempt ==
    /\ run.pc = "attempt"
    /\ run.attempt <= run.maxRetries
    /\ LET r0 == [run EXCEPT !.invocations = @ + 1] IN
       IF r0.invocations > run.plan
       THEN run' = [r0 EXCEPT !.pc = "done", !.outcome = "resolved",
                              !.result = OperationResult, !.doneAt = now]
       ELSE \E error \in FailureValues :
              LET r1 == [r0 EXCEPT !.failures = Append(@, error),
                                   !.lastError = toError(@, error)] IN
              run' = IF lastAttempt(run.attempt, run.maxRetries)
                     THEN [r1 EXCEPT !.pc = "done", !.outcome = "rejected",
                                     !.error = r1.lastError, !.doneAt = now]
                     ELSE [r1 EXCEPT !.pc = "wait"]
    /\ UNCHANGED <<now, backoffFrame>>

\* await new Promise(resolve => setTimeout(resolve, delay)), then attempt++
Wait ==
    /\ run.pc = "wait"
    /\ LET d == delay(run.baseDelayMs, run.maxDelayMs, run.attempt) IN
         /\ now' = now + d
         /\ run' = [run EXCEPT !.pc = "attempt", !.attempt = @ + 1, !.delays = Append(@, d)]
    /\ UNCHANGED backoffFrame

NextBackoff ==
    \/ WithBackoff
    \/ Attempt
    \/ Wait

SpecBackoff == InitBackoff /\ [][NextBackoff]_vars

(***************************************************************************)
(* cache.ts: get and set issued by concurrent flows, one action per store  *)
(* operation.  The store performs its operations one at a time in the     *)
(* order of issue; a call runs without suspension from the completion of   *)
(* one store operation to the issue of the next.                           *)
(***************************************************************************)
raceFrame == <<nticks, nops, lastOp, lastSet, call, prev, ncalls, nfaults, run, conc, view>>

\* set(key, value, ttlMs) up to its await idbSet(cacheKey, entry)
CallSet(f) ==
    /\ race.flows[f].op = "none"
    /\ race.issued < MaxIssued
    /\ \E key \in DirectKeys, value \in DirectValues, ttl \in TTLs :
          race' = [race EXCEPT
                     !.issued = @ + 1,
                     !.queue = Append(@, f),
                     !.flows[f] = [op |-> "set", pending |-> "set", key |-> key,
                                   entry |-> [value |-> value, expiresAt |-> now + ttl,
                                              lastAccess |-> now]]]
    /\ UNCHANGED <<store, now, raceFrame>>

\* get(key) up to its await idbGet(cacheKey)
CallGet(f) ==
    /\ race.flows[f].op = "none"
    /\ race.issued < MaxIssued
    /\ \E key \in DirectKeys :
          race' = [race EXCEPT
                     !.issued = @ + 1,
                     !.queue = Append(@, f),
                     !.flows[f] = [op |-> "get", pending |-> "read", key |-> key,
                                   entry |-> NoEntry]]
    /\ UNCHANGED <<store, now, raceFrame>>

\* idbGet resolves: get returns on a miss, otherwise issues the purge of the
\* expired entry or the write-back of the entry with its new lastAccess
GetRead(f) ==
    LET flow == race.flows[f]
        cacheKey == getCacheKey(flow.key)
    IN /\ flow.op = "get" /\ flow.pending = "read"
       /\ race.queue # <<>> /\ Head(race.queue) = f
       /\ race' = IF ~idbHas(store, cacheKey)
                  THEN [race EXCEPT !.queue = Tail(@), !.flows[f] = NoFlow]
                  ELSE LET entry == store[cacheKey] IN
                       [race EXCEPT
                          !.queue = Append(Tail(@), f),
                          !.flows[f] =
                              IF now > entry.expiresAt
                              THEN [flow EXCEPT !.pending = "del", !.entry = entry]
                              ELSE [flow EXCEPT !.pending = "set",
                                                !.entry = [entry EXCEPT !.lastAccess = now]]]
       /\ UNCHANGED <<store, now, raceFrame>>

\* the pending idbSet or idbDel of a call is performed and the call completes
StoreWrite(f) ==
    LET flow == race.flows[f]
        cacheKey == getCacheKey(flow.key)
    IN /\ flow.pending \in {"set", "del"}
       /\ race.queue # <<>> /\ Head(race.queue) = f
       /\ store' = IF flow.pending = "set" THEN idbSet(store, cacheKey, flow.entry)
                                           ELSE idbDel(store, cacheKey)
       /\ race' = [race EXCEPT
                     !.queue = Tail(@),
                     !.flows[f] = NoFlow,
                     !.lastDone[flow.key] = IF flow.op = "set" THEN flow.entry ELSE @]
       /\ UNCHANGED <<now, raceFrame>>

NextRace ==
    \/ \E f \in Flows : CallSet(f)
    \/ \E f \in Flows : CallGet(f)
    \/ \E f \in Flows : GetRead(f)
    \/ \E f \in Flows : StoreWrite(f)
    \/ TickCache

SpecRace == Init /\ [][NextRace]_vars

(***************************************************************************)
(* repository.ts: getSpecies called by concurrent flows for one id, one    *)
(* action per suspension point.  Each cache.get and cache.set is one step; *)
(* no store operation fails; the calls run within a fraction of a second,  *)
(* far inside every TTL, so the clock stands still.                        *)
(***************************************************************************)
ConcurrentId == <<"sea-otter">>
concKey == CACHE_KEYS_species(ConcurrentId)
concETagKey == CACHE_KEYS_etag(apiUrl("getSpecies", ConcurrentId))

concFrame == <<now, nticks, nops, lastOp, lastSet, call, prev, ncalls, nfaults, run, race, view>>

\* getSpecies(id) up to `await cache.get(cacheKey)`
SpeciesInvoke(f) ==
    /\ conc[f].pc = "idle"
    /\ guard(Str(ConcurrentId)) = "pass"
    /\ conc' = [conc EXCEPT ![f].pc = "cacheGet"]
    /\ UNCHANGED <<store, concFrame>>

\* `const cached = await cache.get(cacheKey)` and the test of what it returned
SpeciesCacheLookup(f) ==
    /\ conc[f].pc = "cacheGet"
    /\ LET r == get(store, concKey, now, "none") IN
         /\ store' = r.store
         /\ conc' = [conc EXCEPT ![f] =
                        IF usable("getSpecies", r.value)
                        THEN [@ EXCEPT !.pc = "done", !.result = r.value, !.tier = "cache"]
                        ELSE [@ EXCEPT !.pc = "etagGet"]]
    /\ UNCHANGED concFrame

\* fetchWithETag: `const cachedETag = await cache.get(etagKey)`
SpeciesETagLookup(f) ==
    /\ conc[f].pc = "etagGet"
    /\ LET r == get(store, concETagKey, now, "none") IN
         /\ store' = r.store
         /\ conc' = [conc EXCEPT ![f].pc = "fetch", ![f].cachedETag = r.value]
    /\ UNCHANGED concFrame

\* one attempt of the operation withBackoff retries: fetch, then the ETag
\* bookkeeping; a rejected fetch is retried maxRetries times
SpeciesFetch(f) ==
    /\ conc[f].pc = "fetch"
    /\ \E out \in FetchOutcomes("getSpecies") :
          IF fetchRejects(out)
          THEN /\ store' = store
               /\ conc' = [conc EXCEPT ![f] =
                              IF lastAttempt(@.attempt, maxRetries)
                              THEN [@ EXCEPT !.pc = "fallback"]
                              ELSE [@ EXCEPT !.attempt = @ + 1]]
          ELSE /\ store' = IF Truthy(out.etag)
                           THEN set(store, concETagKey, out.etag, CACHE_TTL.etag, now,
                                    "none").store
                           ELSE store
               /\ conc' = [conc EXCEPT ![f].pc = "response", ![f].response = out]
    /\ UNCHANGED concFrame

\* `if (response.status === 304)`: the data key is read again
SpeciesRevalidated(f) ==
    /\ conc[f].pc = "response"
    /\ conc[f].response.status = 304
    /\ LET r == get(store, concKey, now, "none") IN
         /\ store' = r.store
         /\ conc' = [conc EXCEPT ![f] =
                        IF usable("getSpecies", r.value)
                        THEN [@ EXCEPT !.pc = "done", !.result = r.value, !.tier = "cache304"]
                        ELSE [@ EXCEPT !.pc = "fallback"]]
    /\ UNCHANGED concFrame

\* `if (response.ok)`: the body is parsed, validated, cached and returned
SpeciesReadBody(f) ==
    /\ conc[f].pc = "response"
    /\ conc[f].response.status # 304
    /\ LET data == conc[f].response.body
           valid == /\ responseOk(conc[f].response.status)
                    /\ data # Malformed
                    /\ validBody("getSpecies", data)
       IN IF valid
          THEN /\ store' = set(store, concKey, data, CACHE_TTL.species, now, "none").store
               /\ conc' = [conc EXCEPT ![f].pc = "done", ![f].result = data,
                                        ![f].tier = "remote"]
          ELSE /\ store' = store
               /\ conc' = [conc EXCEPT ![f].pc = "fallback"]
    /\ UNCHANGED concFrame

\* the bundled tier: the bundled record is cached and returned
SpeciesFallback(f) ==
    /\ conc[f].pc = "fallback"
    /\ LET preloadSpecies == getCoreSpeciesById(ConcurrentId) IN
         IF Truthy(preloadSpecies)
         THEN /\ store' = set(store, concKey, preloadSpecies, CACHE_TTL.species, now,
                              "none").store
              /\ conc' = [conc EXCEPT ![f].pc = "done", ![f].result = preloadSpecies,
                                       ![f].tier = "bundled"]
         ELSE /\ store' = store
              /\ conc' = [conc EXCEPT ![f].pc = "done", ![f].tier = "none"]
    /\ UNCHANGED concFrame

NextConcurrent ==
    \/ \E f \in Flows : SpeciesInvoke(f)
    \/ \E f \in Flows : SpeciesCacheLookup(f)
    \/ \E f \in Flows : SpeciesETagLookup(f)
    \/ \E f \in Flows : SpeciesFetch(f)
    \/ \E f \in Flows : SpeciesRevalidated(f)
    \/ \E f \in Flows : SpeciesReadBody(f)
    \/ \E f \in Flows : SpeciesFallback(f)

SpecConcurrent == Init /\ [][NextConcurrent]_vars

(***************************************************************************)
(* Progress: accessor calls one after the other, or one withBackoff call,  *)
(* where every store operation, every fetch attempt and every timer        *)
(* settles, so that the continuation waiting for it runs.                  *)
(***************************************************************************)
LiveInvoke == run.pc = "idle" /\ Invoke
LiveWithBackoff == ncalls = 0 /\ WithBackoff

NextLive ==
    \/ LiveInvoke
    \/ CacheLookup
    \/ ETagLookup
    \/ Fetch
    \/ Revalidated
    \/ ReadBody
    \/ Fallback
    \/ LiveWithBackoff
    \/ Attempt
    \/ Wait

\* a pending store operation, fetch or timer settles and its continuation runs
Settles ==
    /\ WF_vars(CacheLookup)
    /\ WF_vars(ETagLookup)
    /\ WF_vars(Fetch)
    /\ WF_vars(Revalidated)
    /\ WF_vars(ReadBody)
    /\ WF_vars(Fallback)
    /\ WF_vars(Attempt)
    /\ WF_vars(Wait)

SpecLive == Init /\ [][NextLive]_vars /\ Settles

(***************************************************************************)
(* The components that call getSpecies: InfoCard and DeeperDive            *)
(***************************************************************************)
MaxRenders == 3
ViewIds == {<<"sea-otter">>, <<"harbor-seal">>, <<"narwhal">>}

viewFrame == <<store, now, nticks, nops, lastOp, lastSet, call, prev, ncalls, nfaults, run, race, conc>>

\* what `await getSpecies(id)` hands the component for a string id: the record
\* of that id, or undefined for an id no tier knows (the call never rejects
\* for a string argument, so the catch branches of the effects stay unused)
speciesData(id) == getCoreSpeciesById(id)

\* the sequence s without its i-th element
RemoveAt(s, i) == SubSeq(s, 1, i - 1) \o SubSeq(s, i + 1, Len(s))

\* InfoCard's fetch effect up to `await getSpecies(speciesId)`, run with the
\* component in state v under the props (isOpen, speciesId)
infoCardEffect(v, isOpen, speciesId) ==
    IF ~isOpen \/ ~Truthy(speciesId)
    THEN [v EXCEPT !.isOpen = isOpen, !.speciesId = speciesId,
                   !.species = Null, !.error = Null]
    ELSE [v EXCEPT !.isOpen = isOpen, !.speciesId = speciesId,
                   !.loading = TRUE, !.error = Null,
                   !.pending = Append(@, speciesId.s)]

\* DeeperDive's loadSpecies up to `await getSpecies(id)`
loadSpecies(v, id) ==
    IF ~Truthy(id)
    THEN [v EXCEPT !.speciesId = id,
                   !.error = Str(<<"Species ID not provided">>), !.loading = FALSE]
    ELSE [v EXCEPT !.speciesId = id,
                   !.loading = TRUE, !.error = Null,
                   !.pending = Append(@, id.s)]

\* both effects after the await: the try body and the finally block
afterAwait(v, id, data) ==
    IF Truthy(data)
    THEN [v EXCEPT !.species = data, !.loading = FALSE]
    ELSE [v EXCEPT !.error = Str(<<"Species not found">>), !.loading = FALSE]

\* <InfoCard speciesId isOpen /> is rendered for the first time
InfoCardMount ==
    /\ view.component = "none"
    /\ \E isOpen \in BOOLEAN : \E speciesId \in {Null} \cup {Str(id) : id \in ViewIds} :
          view' = infoCardEffect([view EXCEPT !.component = "InfoCard"], isOpen, speciesId)
    /\ UNCHANGED viewFrame

\* the parent renders InfoCard with other props: the effect runs again because
\* isOpen or speciesId differs from the last render
InfoCardProps ==
    /\ view.component = "InfoCard"
    /\ view.renders < MaxRenders
    /\ \E isOpen \in BOOLEAN : \E speciesId \in {Null} \cup {Str(id) : id \in ViewIds} :
          /\ <<isOpen, speciesId>> # <<view.isOpen, view.speciesId>>
          /\ view' = infoCardEffect([view EXCEPT !.renders = @ + 1], isOpen, speciesId)
    /\ UNCHANGED viewFrame

\* a getSpecies call InfoCard awaits resolves, in any order
InfoCardResolved ==
    /\ view.component = "InfoCard"
    /\ \E i \in 1..Len(view.pending) :
          view' = afterAwait([view EXCEPT !.pending = RemoveAt(@, i)],
                             view.pending[i], speciesData(view.pending[i]))
    /\ UNCHANGED viewFrame

\* the route /species/:id/deep is entered: state starts as useState gives it
DeeperDiveMount ==
    /\ view.component = "none"
    /\ \E id \in {Undefined} \cup {Str(i) : i \in ViewIds} :
          view' = loadSpecies([view EXCEPT !.component = "DeeperDive", !.loading = TRUE], id)
    /\ UNCHANGED viewFrame

\* the route parameter changes while DeeperDive stays mounted
DeeperDiveRoute ==
    /\ view.component = "DeeperDive"
    /\ view.renders < MaxRenders
    /\ \E id \in {Str(i) : i \in ViewIds} :
          /\ id # view.speciesId
          /\ view' = loadSpecies([view EXCEPT !.renders = @ + 1], id)
    /\ UNCHANGED viewFrame

\* a getSpecies call DeeperDive awaits resolves, in any order
DeeperDiveResolved ==
    /\ view.component = "DeeperDive"
    /\ \E i \in 1..Len(view.pending) :
          view' = afterAwait([view EXCEPT !.pending = RemoveAt(@, i)],
                             view.pending[i], speciesData(view.pending[i]))
    /\ UNCHANGED viewFrame

NextView ==
    \/ InfoCardMount
    \/ InfoCardProps
    \/ InfoCardResolved
    \/ DeeperDiveMount
    \/ DeeperDiveRoute
    \/ DeeperDiveResolved

SpecView == Init /\ [][NextView]_vars

(***************************************************************************)
(* Properties of the cache engine                                          *)
(***************************************************************************)

\* C2: cache round-trip.  When get(k) directly follows a set(k, v, ttl) on the
\* same key (no other operation on k in between; operations on other keys and
\* clock ticks may intervene), neither call met a store failure and less than
\* ttl has elapsed, get returns exactly v.
C2_RoundTrip ==
    (/\ lastOp.op = "get"
     /\ ~lastOp.failed
     /\ lastOp.since = "fresh"
     /\ lastOp.at - lastSet[lastOp.key].at < lastSet[lastOp.key].ttl)
    => lastOp.value = lastSet[lastOp.key].value

\* a round trip of the falsy value 0 with time elapsed between set and get
C2_Witness ==
    /\ lastOp.op = "get"
    /\ ~lastOp.failed
    /\ lastOp.since = "fresh"
    /\ lastOp.at > lastSet[lastOp.key].at
    /\ lastOp.at - lastSet[lastOp.key].at < lastSet[lastOp.key].ttl
    /\ lastOp.value = Num(0)

\* C3: expiry is absolute from the most recent set.  A stored entry always
\* carries the value and the expiry (t + ttl) of the most recent successful
\* set of its key, however often it was read; a get(k) later than t + ttl that
\* meets no store failure returns not-found and leaves no entry under k, so
\* getStats counts only the entries of the other keys.
C3_AbsoluteExpiry ==
    /\ \A k \in DirectKeys :
          idbHas(store, getCacheKey(k)) =>
             /\ lastSet[k].op = "set"
             /\ store[getCacheKey(k)].expiresAt = lastSet[k].at + lastSet[k].ttl
             /\ store[getCacheKey(k)].value = lastSet[k].value
    /\ (/\ lastOp.op = "get"
        /\ ~lastOp.failed
        /\ lastSet[lastOp.key].op = "set"
        /\ lastOp.at > lastSet[lastOp.key].at + lastSet[lastOp.key].ttl)
       => /\ lastOp.value = Undefined
          /\ ~idbHas(store, getCacheKey(lastOp.key))
          /\ LET stats == getStats(store, now, "none") IN
             stats.validEntries + stats.expiredEntries =
                Cardinality({k \in DirectKeys \ {lastOp.key} :
                                idbHas(store, getCacheKey(k))})

\* an expired get that follows a successful read of the same entry
C3_Witness ==
    /\ lastOp.op = "get"
    /\ ~lastOp.failed
    /\ lastOp.since = "read"
    /\ lastSet[lastOp.key].op = "set"
    /\ lastOp.at > lastSet[lastOp.key].at + lastSet[lastOp.key].ttl
    /\ lastOp.value = Undefined

(***************************************************************************)
(* Properties of the repository                                            *)
(***************************************************************************)
Blank(s) == \A i \in 1..Len(s) : s[i] \in WhiteSpace

\* the bundled records with identifier id
BundledWithId(id) ==
    {coreSpecies[i] : i \in {j \in 1..Len(coreSpecies) : Prop(coreSpecies[j], "id").s = id}}

\* the accessor call just completed
Completed(op) == call.pc = "done" /\ call.op = op

\* every fetch attempt of call c failed at network level
NetworkDown(c) == c.http = maxRetries + 1 /\ c.netErrors = c.http

\* call c received a response, 2xx with a body of the accessor's shape
RemoteValid(c) ==
    /\ c.response.status \in 200..299
    /\ c.response.body # Malformed
    /\ CASE c.op = "getSpecies" -> isSpecies(c.response.body)
         [] c.op = "search" -> isSpeciesArray(c.response.body)
         [] OTHER -> isArray(c.response.body)

\* the remote call of c failed: every attempt a network error, or a response
\* that is not 2xx, or a 2xx body that is malformed or of the wrong shape
RemoteFailed(c) ==
    \/ NetworkDown(c)
    \/ c.response.status # 0 /\ ~RemoteValid(c)

\* the entry under the data key of the completed call
DataEntry(c) == store[getCacheKey(c.cacheKey)]
HasDataEntry(c) == idbHas(store, getCacheKey(c.cacheKey))

\* C1: for every string argument and every combination of failures, each
\* accessor resolves (never rejects), getSpecies with a species record or
\* not-found, search and getPopulation with a list.
C1_ResolvesWithValue ==
    (call.pc = "done" /\ call.op \in Accessors /\ call.arg.type = "string")
    => /\ call.outcome = "resolved"
       /\ call.op = "getSpecies" => (call.result = Undefined \/ isSpecies(call.result))
       /\ call.op # "getSpecies" => isArray(call.result)

\* the part of C1 the code keeps: no accessor call with a string argument rejects
NoRejectionForStrings ==
    (call.pc = "done" /\ call.op \in Accessors /\ call.arg.type = "string")
    => call.outcome = "resolved"

\* C4: tier order of getSpecies.  On a cache miss, when the remote API answers
\* 2xx with a valid species body (and no store operation of the call fails),
\* getSpecies returns that remote record, also for a bundled id, and the store
\* holds it under species:{id} with expiry 24 hours after the write.
C4_RemoteBeforeBundled ==
    (/\ Completed("getSpecies")
     /\ call.tier # "cache"
     /\ ~call.storeFailed
     /\ RemoteValid(call))
    => /\ call.result = call.response.body
       /\ call.cacheKey = <<"species:">> \o call.arg.s
       /\ HasDataEntry(call)
       /\ DataEntry(call).value = call.response.body
       /\ DataEntry(call).expiresAt = call.doneAt + 86400000

\* a remote record returned for an id the bundled dataset also has
C4_Witness ==
    /\ Completed("getSpecies")
    /\ call.tier = "remote"
    /\ call.arg = Str(<<"sea-otter">>)
    /\ call.result = RemoteOtter
    /\ call.result \notin BundledWithId(call.arg.s)
    /\ BundledWithId(call.arg.s) # {}

\* the C5 situation: an empty cache, a failed remote call, a bundled id, and
\* no store failure
BundledFallbackCase(c) ==
    /\ c.op = "getSpecies"
    /\ c.pc = "done"
    /\ c.entry0 = NoEntry
    /\ c.tier # "guard"
    /\ ~c.storeFailed
    /\ RemoteFailed(c)
    /\ BundledWithId(c.arg.s) # {}

\* C5: the bundled fallback fills the cache.  When the cache holds nothing for
\* the id, the remote call fails and the id is bundled, getSpecies returns the
\* bundled record and stores it for 24 hours (no store operation failing); a
\* cache lookup of species:{id} made within 24 hours of that returns the same
\* bundled record.
C5_FallbackIsCached ==
    /\ BundledFallbackCase(call)
       => /\ call.result \in BundledWithId(call.arg.s)
          /\ HasDataEntry(call)
          /\ DataEntry(call).value = call.result
          /\ DataEntry(call).expiresAt = call.doneAt + 86400000
    /\ (/\ call.pc = "done" /\ call.op = "lookup"
        /\ BundledFallbackCase(prev)
        /\ call.startedAt - prev.doneAt <= 86400000)
       => /\ call.result = prev.result
          /\ call.result \in BundledWithId(call.arg.s)

\* a lookup hours after a fallback that followed three network errors
C5_Witness ==
    /\ call.pc = "done" /\ call.op = "lookup"
    /\ BundledFallbackCase(prev)
    /\ NetworkDown(prev)
    /\ call.startedAt > prev.doneAt
    /\ call.result = coreSpecies[1]

\* the value under the data key is of the shape the accessor expects
ExpectedShape(op, v) == IF op = "getSpecies" THEN isSpecies(v) ELSE isArray(v)

\* the C6 situation: when the call looked its data key up, a live entry of the
\* expected shape was there, and no store operation of the call failed
LiveHit(c) ==
    /\ c.op \in Accessors
    /\ c.pc = "done"
    /\ c.entry0 # NoEntry
    /\ c.startedAt <= c.entry0.expiresAt
    /\ ExpectedShape(c.op, c.entry0.value)
    /\ ~c.storeFailed

\* C6: a cache hit short-circuits.  The accessor returns exactly the cached
\* value, issues no HTTP request, reads no ETag entry and makes no cache.set;
\* the entry keeps its value and expiry.
C6_CacheHitShortCircuits ==
    LiveHit(call)
    => /\ call.result = call.entry0.value
       /\ call.http = 0
       /\ call.etagReads = 0
       /\ call.dataSets = 0
       /\ HasDataEntry(call)
       /\ DataEntry(call).value = call.entry0.value
       /\ DataEntry(call).expiresAt = call.entry0.expiresAt

\* a hit on a cached empty search result
C6_Witness ==
    /\ LiveHit(call)
    /\ call.op = "search"
    /\ call.result = Arr(<<>>)

\* C7: blank input is rejected before any I/O.  For an empty or
\* whitespace-only string getSpecies resolves to not-found, search and
\* getPopulation to the empty list, with no cache read, cache write or HTTP
\* request.
C7_BlankRejectedBeforeIO ==
    (/\ call.pc = "done" /\ call.op \in Accessors
     /\ call.arg.type = "string" /\ Blank(call.arg.s))
    => /\ call.outcome = "resolved"
       /\ call.result = (IF call.op = "getSpecies" THEN Undefined ELSE Arr(<<>>))
       /\ call.dataReads = 0 /\ call.etagReads = 0 /\ call.dataSets = 0
       /\ call.http = 0
       /\ call.doneAt = call.startedAt

\* a whitespace-only query answered with the empty list
C7_Witness ==
    /\ call.pc = "done" /\ call.op = "search"
    /\ call.arg = Str(<<"\t">>)
    /\ call.result = Arr(<<>>)

\* C8: getSpecies(id) resolves to not-found for every id that is not a
\* string, without raising and without cache access or HTTP request.
C8_NonStringNotFound ==
    (Completed("getSpecies") /\ call.arg.type # "string")
    => /\ call.outcome = "resolved"
       /\ call.result = Undefined
       /\ call.dataReads = 0 /\ call.etagReads = 0 /\ call.dataSets = 0
       /\ call.http = 0

\* the part of C8 the code keeps: null and undefined resolve to not-found
NullishNotFound ==
    (Completed("getSpecies") /\ call.arg.type \in {"null", "undefined"})
    => call.outcome = "resolved" /\ call.result = Undefined /\ call.dataReads = 0

\* the bundled records whose joined, lower-cased text contains the trimmed,
\* lower-cased query
StripBlanks(s) ==
    IF Blank(s) THEN <<>>
    ELSE LET first == CHOOSE i \in 1..Len(s) :
                         s[i] \notin WhiteSpace /\ \A j \in 1..(i - 1) : s[j] \in WhiteSpace
             last == CHOOSE i \in 1..Len(s) :
                        s[i] \notin WhiteSpace /\ \A j \in (i + 1)..Len(s) : s[j] \in WhiteSpace
         IN [i \in 1..(last - first + 1) |-> s[first + i - 1]]

TextOf(species) ==
    Prop(species, "name").s \o <<" ">> \o Prop(Prop(species, "bullets"), "habitat").s
    \o <<" ">> \o Prop(Prop(species, "bullets"), "diet").s
    \o <<" ">> \o Prop(Prop(species, "bullets"), "personality").s

Occurs(term, text) ==
    \E a, b \in 0..Len(text) :
        a <= b /\ b - a = Len(term) /\ \A i \in 1..Len(term) : text[a + i] = term[i]

Lowered(s) == [i \in 1..Len(s) |-> LowerSym(s[i])]

LocalMatch(query, species) == Occurs(Lowered(StripBlanks(query)), Lowered(TextOf(species)))

RECURSIVE LocalMatchesFrom(_, _)
LocalMatchesFrom(query, i) ==
    IF i > Len(coreSpecies) THEN <<>>
    ELSE (IF LocalMatch(query, coreSpecies[i]) THEN <<coreSpecies[i]>> ELSE <<>>)
         \o LocalMatchesFrom(query, i + 1)

LocalMatches(query) == LocalMatchesFrom(query, 1)

\* the C9 situation: nothing cached for the query, every attempt a network
\* error, no store failure
OfflineSearchCase(c) ==
    /\ c.op = "search"
    /\ c.pc = "done"
    /\ c.entry0 = NoEntry
    /\ ~c.storeFailed
    /\ NetworkDown(c)

\* C9: offline search is local and cached.  With nothing cached and every
\* network attempt failing, search(q) returns exactly the local matches, stores
\* them under search:{q} for 30 minutes, and search(q) repeated at once returns
\* the same list without an HTTP request.
C9_OfflineSearchCached ==
    /\ OfflineSearchCase(call)
       => /\ call.result = Arr(LocalMatches(call.arg.s))
          /\ call.cacheKey = <<"search:">> \o call.arg.s
          /\ HasDataEntry(call)
          /\ DataEntry(call).value = call.result
          /\ DataEntry(call).expiresAt = call.doneAt + 1800000
    /\ (/\ Completed("search")
        /\ OfflineSearchCase(prev)
        /\ call.startedAt = prev.doneAt
        /\ ~call.storeFailed)
       => /\ call.result = prev.result
          /\ call.http = 0

\* an offline, mixed-case query with a match, repeated and served from the cache
C9_Witness ==
    /\ Completed("search")
    /\ OfflineSearchCase(prev)
    /\ call.startedAt = prev.doneAt
    /\ ~call.storeFailed
    /\ call.arg = Str(<<"Otter">>)
    /\ call.result = Arr(<<coreSpecies[1]>>)
    /\ call.http = 0

\* the remote records to append: those whose identifier no local match has
RECURSIVE RemoteOnly(_, _)
RemoteOnly(remote, local) ==
    IF remote = <<>> THEN <<>>
    ELSE (IF \E i \in 1..Len(local) : Prop(local[i], "id") = Prop(Head(remote), "id")
          THEN <<>> ELSE <<Head(remote)>>)
         \o RemoteOnly(Tail(remote), local)

\* C10: search merge order.  When the remote search answers 2xx with an array
\* of valid species (cache miss, no store failure), search returns the local
\* matches in bundled order followed by the remote records, in remote order,
\* whose identifier is not among the local matches; a remote record with the
\* identifier of a local match is dropped.
C10_MergeOrder ==
    (/\ Completed("search")
     /\ call.tier # "cache"
     /\ ~call.storeFailed
     /\ RemoteValid(call))
    => call.result =
          Arr(LocalMatches(call.arg.s)
              \o RemoteOnly(call.response.body.items, LocalMatches(call.arg.s)))

\* two local matches, then the one remote record that is new; the remote
\* version of a local match is dropped
C10_Witness ==
    /\ Completed("search")
    /\ call.tier = "remote"
    /\ call.arg = Str(<<" ", "coastal">>)
    /\ call.response.body = Arr(<<RemoteTest, RemoteOtter, RemoteTest>>)
    /\ Len(call.result.items) >= 3
    /\ call.result.items[1] = coreSpecies[1]
    /\ call.result.items[2] = coreSpecies[3]
    /\ call.result.items[3] = RemoteTest
    /\ \A i \in 1..Len(call.result.items) : call.result.items[i] # RemoteOtter

\* C11: merged search results are deduplicated.  For every local result list
\* (with pairwise distinct identifiers) and every remote array of valid
\* species, the list search returns holds no two records with the same
\* identifier.
C11_NoDuplicateIds ==
    (/\ Completed("search")
     /\ call.tier # "cache"
     /\ ~call.storeFailed
     /\ RemoteValid(call))
    => \A i, j \in 1..Len(call.result.items) :
          Prop(call.result.items[i], "id") = Prop(call.result.items[j], "id") => i = j

\* the part of C11 the code keeps: no returned remote record has the
\* identifier of a local match, and the local matches are pairwise distinct
NoRemoteCopyOfLocal ==
    (/\ Completed("search")
     /\ call.tier # "cache"
     /\ ~call.storeFailed
     /\ RemoteValid(call))
    => LET n == Len(LocalMatches(call.arg.s))
           ids(a, b) == {Prop(call.result.items[i], "id") : i \in a..b}
       IN /\ ids(1, n) \cap ids(n + 1, Len(call.result.items)) = {}
          /\ Cardinality(ids(1, n)) = n

\* C12: population has no bundled fallback.  With no entry cached and the
\* remote call failing (every attempt a network error, a non-OK status, or a
\* 2xx body that is not an array), getPopulation returns the empty list for
\* every id, bundled ids included, never reaches the bundled tier and writes
\* nothing under population:{id}.
C12_PopulationNoFallback ==
    (/\ Completed("getPopulation")
     /\ call.tier # "guard"
     /\ call.entry0 = NoEntry
     /\ RemoteFailed(call))
    => /\ call.outcome = "resolved"
       /\ call.result = Arr(<<>>)
       /\ call.tier = "empty"
       /\ call.dataSets = 0
       /\ call.cacheKey = <<"population:">> \o call.arg.s
       /\ ~HasDataEntry(call)

\* the network down for the population of a bundled species
C12_Witness ==
    /\ Completed("getPopulation")
    /\ call.entry0 = NoEntry
    /\ NetworkDown(call)
    /\ BundledWithId(call.arg.s) # {}
    /\ call.result = Arr(<<>>)

(***************************************************************************)
(* Properties of the eviction pass                                         *)
(***************************************************************************)
\* the namespaced keys of store s, and those whose entry is unexpired at time t
Namespaced(s) == {k \in DOMAIN s : Len(k) >= 1 /\ k[1] = "sea-here-cache:"}
LiveKeys(s, t) == {k \in Namespaced(s) : ~(t > s[k].expiresAt)}
ExpiredKeys(s, t) == Namespaced(s) \ LiveKeys(s, t)

\* the last operation was an eviction pass that completed; the store is as it left it
EvictDone == lastOp.op = "evict" /\ ~lastOp.failed
\* the live entries the pass deleted, and those it kept
Evicted == LiveKeys(lastOp.before, lastOp.at) \ DOMAIN store
Retained == LiveKeys(lastOp.before, lastOp.at) \cap DOMAIN store

\* C13: LRU eviction is exact.  When a pass evictLRUIfNeeded(maxEntries) runs
\* alone and completes, and the number L of live namespaced entries exceeds
\* maxEntries, it deletes exactly L - maxEntries live entries, each with a
\* last-access timestamp at most that of every retained entry, and exactly
\* maxEntries live entries remain.
C13_EvictionExact ==
    (EvictDone /\ Cardinality(LiveKeys(lastOp.before, lastOp.at)) > lastOp.value.n)
    => /\ Cardinality(Evicted)
             = Cardinality(LiveKeys(lastOp.before, lastOp.at)) - lastOp.value.n
       /\ \A d \in Evicted, r \in Retained :
             lastOp.before[d].lastAccess <= lastOp.before[r].lastAccess
       /\ Cardinality(LiveKeys(store, lastOp.at)) = lastOp.value.n
       /\ \A r \in Retained : store[r] = lastOp.before[r]

\* three live entries, one kept: the most recently accessed one
C13_Witness ==
    /\ EvictDone
    /\ lastOp.value.n = 1
    /\ Cardinality(LiveKeys(lastOp.before, lastOp.at)) = 3
    /\ Cardinality(Evicted) = 2
    /\ \E d \in Evicted, r \in Retained :
          lastOp.before[d].lastAccess < lastOp.before[r].lastAccess

\* C14: a read protects an entry from eviction.  A successful get(k) sets the
\* entry's last-access to the time of the read, and an eviction pass deletes a
\* live entry only together with every live entry whose last-access is
\* strictly earlier (also when the pass stops at a failing store operation).
C14_ReadProtects ==
    /\ (/\ lastOp.op = "get" /\ ~lastOp.failed
        /\ idbHas(store, getCacheKey(lastOp.key)))
       => /\ store[getCacheKey(lastOp.key)].lastAccess = lastOp.at
          /\ lastOp.value = store[getCacheKey(lastOp.key)].value
    /\ lastOp.op = "evict"
       => \A k \in Evicted, j \in LiveKeys(lastOp.before, lastOp.at) :
             lastOp.before[j].lastAccess < lastOp.before[k].lastAccess
             => j \in Evicted

\* k1, read in this session after the other entries were last touched, is kept
\* while an entry with a later key and an older access is evicted
C14_Witness ==
    /\ EvictDone
    /\ <<"sea-here-cache:", "k1">> \in Retained
    /\ lastOp.before[<<"sea-here-cache:", "k1">>].lastAccess > StartTime
    /\ <<"sea-here-cache:", "k3">> \in Evicted
    /\ <<"sea-here-cache:", "k2">> \in Evicted

\* C15: no-op eviction.  Whenever the number of live namespaced entries is at
\* or below n, evictLRUIfNeeded(n) leaves all entries in the store intact:
\* nothing is deleted or modified.
C15_NoOpWhenLiveWithinLimit ==
    (EvictDone /\ Cardinality(LiveKeys(lastOp.before, lastOp.at)) <= lastOp.value.n)
    => store = lastOp.before

\* C15 as amended: whenever the number of live namespaced entries is at or
\* below n, evictLRUIfNeeded(n) leaves every live entry and every key outside
\* the namespace intact; it deletes nothing at all when the number of
\* namespaced entries, expired ones included, is at or below n, and otherwise
\* deletes exactly the expired entries.
C15_LiveIntactWithinLimit ==
    (EvictDone /\ Cardinality(LiveKeys(lastOp.before, lastOp.at)) <= lastOp.value.n)
    => /\ \A k \in DOMAIN lastOp.before \ ExpiredKeys(lastOp.before, lastOp.at) :
             k \in DOMAIN store /\ store[k] = lastOp.before[k]
       /\ Cardinality(Namespaced(lastOp.before)) <= lastOp.value.n
          => store = lastOp.before
       /\ Cardinality(Namespaced(lastOp.before)) > lastOp.value.n
          => DOMAIN store = DOMAIN lastOp.before \ ExpiredKeys(lastOp.before, lastOp.at)

\* one live and one expired entry, limit 1: the expired entry is deleted, the
\* live one untouched
C15_Witness ==
    /\ EvictDone
    /\ lastOp.value.n = 1
    /\ Cardinality(LiveKeys(lastOp.before, lastOp.at)) = 1
    /\ Cardinality(ExpiredKeys(lastOp.before, lastOp.at)) = 1
    /\ Cardinality(Namespaced(store)) = 1
    /\ \A k \in Namespaced(store) : store[k] = lastOp.before[k]

\* the number of live entries a pass with limit n should delete
Excess(live, n) == IF live > n THEN live - n ELSE 0

\* C16: eviction purges expired entries.  For every maxEntries, after a pass
\* evictLRUIfNeeded(maxEntries) completes no expired namespaced entry is left
\* in the store, and the expired entries do not count toward the limit.
C16_PurgesExpired ==
    EvictDone
    => /\ ExpiredKeys(store, lastOp.at) = {}
       /\ Cardinality(Evicted)
             = Excess(Cardinality(LiveKeys(lastOp.before, lastOp.at)), lastOp.value.n)

\* C16 as amended: when the number of namespaced entries, live and expired
\* together, exceeds maxEntries, a completed pass leaves no expired namespaced
\* entry in the store; in every completed pass the number of live entries
\* evicted is counted from the live entries alone.
C16_PurgesExpiredWhenOverLimit ==
    EvictDone
    => /\ Cardinality(Namespaced(lastOp.before)) > lastOp.value.n
          => ExpiredKeys(store, lastOp.at) = {}
       /\ Cardinality(Evicted)
             = Excess(Cardinality(LiveKeys(lastOp.before, lastOp.at)), lastOp.value.n)

\* two live entries and an expired one, limit 1: the expired entry is purged
\* and one live entry, not two, is evicted
C16_Witness ==
    /\ EvictDone
    /\ lastOp.value.n = 1
    /\ Cardinality(ExpiredKeys(lastOp.before, lastOp.at)) = 1
    /\ Cardinality(LiveKeys(lastOp.before, lastOp.at)) = 2
    /\ ExpiredKeys(store, lastOp.at) = {}
    /\ Cardinality(LiveKeys(store, lastOp.at)) = 1

(***************************************************************************)
(* Properties of clear and of the failure handling of get and set          *)
(***************************************************************************)
\* C17: clear() removes every store key that starts with the prefix
\* sea-here-cache:, live or expired, and leaves every other key of the shared
\* store with its value; after it has completed, and until the next write,
\* get(k) returns not-found for every k.
C17_ClearRemovesNamespace ==
    (lastOp.op = "clear" /\ ~lastOp.failed)
    => /\ ~lastOp.rejected
       /\ DOMAIN store = DOMAIN lastOp.before \ Namespaced(lastOp.before)
       /\ \A k \in DOMAIN store : store[k] = lastOp.before[k]
       /\ \A k \in DirectKeys, fault \in StoreFaults :
             get(store, k, now, fault).value = Undefined

\* a live and an expired entry cleared beside the other application's key
C17_Witness ==
    /\ lastOp.op = "clear" /\ ~lastOp.failed
    /\ Cardinality(LiveKeys(lastOp.before, lastOp.at)) = 1
    /\ Cardinality(ExpiredKeys(lastOp.before, lastOp.at)) = 1
    /\ DOMAIN store = {<<"other-app:settings">>}
    /\ store[<<"other-app:settings">>] = Str(<<"dark">>)

\* C18: cache get never throws.  If the store read, the delete of an expired
\* entry or the last-access write-back fails, get(k) resolves to not-found
\* instead of rejecting.
C18_GetNeverThrows ==
    lastOp.op = "get"
    => /\ ~lastOp.rejected
       /\ lastOp.failed => lastOp.value = Undefined

\* the write-back of a live entry failed: not-found, although the entry is there
C18_Witness ==
    /\ lastOp.op = "get"
    /\ lastOp.fault = "write"
    /\ ~lastOp.rejected
    /\ lastOp.value = Undefined
    /\ getCacheKey(lastOp.key) \in LiveKeys(store, lastOp.at)

\* C19: cache set propagates store failures.  If the store write fails,
\* set(k, v, ttl) rejects with the error of the store, and the store content
\* under k (and everywhere else) is what it was before the call.
C19_SetPropagates ==
    (lastOp.op = "set" /\ lastOp.failed)
    => /\ lastOp.rejected
       /\ lastOp.error = "store error"
       /\ store = lastOp.before

\* a failed overwrite: the call rejects and the older entry is still there
C19_Witness ==
    /\ lastOp.op = "set" /\ lastOp.failed /\ lastOp.rejected
    /\ idbHas(store, getCacheKey(lastOp.key))
    /\ store[getCacheKey(lastOp.key)].value # lastOp.value

(***************************************************************************)
(* Properties of the conditional request                                   *)
(***************************************************************************)
\* C20: conditional request.  A remote request for a URL carries an
\* If-None-Match header if and only if the cache held a live entry under
\* etag:{url}, for that URL, when the request was prepared, and the header
\* value is the cached validator; every request carries
\* Content-Type: application/json.  (For calls in which no store operation
\* failed.)
C20_ConditionalRequest ==
    (call.op \in Accessors /\ ~call.storeFailed)
    => \A i \in 1..Len(call.requests) :
          LET r == call.requests[i]
              held == /\ call.etag0 # NoEntry
                      /\ ~(call.startedAt > call.etag0.expiresAt)
          IN /\ call.etagKey = <<"etag:">> \o r.url
             /\ r.headers.ContentType = <<"application/json">>
             /\ (r.headers.IfNoneMatch # Undefined) <=> held
             /\ held => r.headers.IfNoneMatch = call.etag0.value

\* a second call within a day of a response that carried an ETag sends it
\* back, on the retry after a network error as well
C20_Witness ==
    /\ call.op = "getSpecies"
    /\ ~call.storeFailed
    /\ Len(call.requests) = 2
    /\ call.startedAt > 0
    /\ \A i \in 1..2 : call.requests[i].headers.IfNoneMatch = Str(<<"\"abc123\"">>)

(***************************************************************************)
(* Properties of the response handling and of the retries                  *)
(***************************************************************************)
\* the completed accessor call received a 304
Got304 == call.pc = "done" /\ call.op \in Accessors /\ call.response.status = 304

\* C21: 304 handling.  On a 304 each accessor reads its data key again; a
\* value of the expected shape found there is returned, and otherwise the call
\* falls through without raising and without reading a response body:
\* getSpecies to the bundled lookup, search to the local-only result, which it
\* caches, getPopulation to the empty list.
C21_NotModified ==
    Got304
    => /\ call.outcome = "resolved"
       /\ call.dataReads = 2
       /\ call.bodyReads = 0
       /\ LET found == /\ call.reread.entry # NoEntry
                       /\ ~(call.reread.at > call.reread.entry.expiresAt)
                       /\ ExpectedShape(call.op, call.reread.entry.value)
                       /\ ~call.reread.failed
          IN IF found
             THEN /\ call.result = call.reread.entry.value
                  /\ call.dataSets = 0
                  /\ call.doneAt = call.reread.at
             ELSE CASE call.op = "getSpecies" ->
                          /\ call.tier \in {"bundled", "none", "catch"}
                          /\ BundledWithId(call.arg.s) # {}
                             => call.result \in BundledWithId(call.arg.s)
                    [] call.op = "search" ->
                          /\ call.result = Arr(LocalMatches(call.arg.s))
                          /\ call.dataSets = 1
                          /\ ~call.storeFailed
                             => /\ HasDataEntry(call)
                                /\ DataEntry(call).value = call.result
                                /\ DataEntry(call).expiresAt = call.doneAt + 1800000
                    [] call.op = "getPopulation" ->
                          /\ call.result = Arr(<<>>)
                          /\ call.dataSets = 0

\* a 304 whose second read finds the species the first read failed to deliver
C21_Witness ==
    /\ Got304
    /\ call.op = "getSpecies"
    /\ call.tier = "cache304"
    /\ call.reread.entry # NoEntry
    /\ call.result = call.reread.entry.value
    /\ isSpecies(call.result)

\* a 304 with nothing cached: search falls through to its local matches
C21_WitnessFallThrough ==
    /\ Got304
    /\ call.op = "search"
    /\ call.reread.entry = NoEntry
    /\ call.result = Arr(<<coreSpecies[1]>>)

\* C22: validation failures are not retried.  When the first HTTP attempt of
\* an accessor call resolves with a response that is a 2xx with a body failing
\* the shape validation, or has a non-OK status, the call issues exactly one
\* HTTP request and waits no backoff delay before it proceeds to its fallback.
\* (For calls in which no store operation failed.)
C22_NoRetryAfterResponse ==
    (/\ call.pc = "done" /\ call.op \in Accessors
     /\ ~call.storeFailed
     /\ call.http >= 1
     /\ call.statuses[1] # 0
     /\ ~RemoteValid(call))
    => /\ call.http = 1
       /\ Len(call.requests) = 1
       /\ call.delays = <<>>
       /\ call.doneAt = call.startedAt
       /\ call.tier \in {"bundled", "local", "none", "empty"}

\* a 200 with an invalid body: one request, then the bundled record
C22_Witness ==
    /\ Completed("getSpecies")
    /\ ~call.storeFailed
    /\ call.response.status = 200
    /\ call.response.body = InvalidObj
    /\ call.http = 1
    /\ call.delays = <<>>
    /\ call.result = coreSpecies[1]

(***************************************************************************)
(* Properties of withBackoff                                               *)
(***************************************************************************)
BackoffDone == run.pc = "done"

\* C23: attempt count.  A completed withBackoff call with maxRetries >= 0 whose
\* operation fails on its first f invocations and succeeds afterwards has
\* invoked the operation exactly min(f, maxRetries) + 1 times; it resolved with
\* the operation's result when f <= maxRetries and rejected otherwise; and
\* when the maxRetries option is omitted, maxRetries is 2.
C23_AttemptCount ==
    BackoffDone =>
        LET f == run.plan
            m == IF run.options.maxRetries = Undefined THEN 2 ELSE run.options.maxRetries.n
        IN /\ run.invocations = (IF f <= m THEN f ELSE m) + 1
           /\ f <= m => run.outcome = "resolved" /\ run.result = OperationResult
           /\ f > m => run.outcome = "rejected"

C23_Witness ==
    /\ BackoffDone
    /\ run.options.maxRetries = Undefined
    /\ run.plan = 2
    /\ run.invocations = 3
    /\ run.outcome = "resolved"

C23_WitnessRejected ==
    /\ BackoffDone
    /\ run.options.maxRetries = Num(0)
    /\ run.plan = MaxPlan
    /\ run.invocations = 1
    /\ run.outcome = "rejected"

RECURSIVE TwoTo(_)
TwoTo(a) == IF a = 0 THEN 1 ELSE 2 * TwoTo(a - 1)

RECURSIVE SumOf(_)
SumOf(seq) == IF seq = <<>> THEN 0 ELSE seq[1] + SumOf(Tail(seq))

\* C24: delays.  The wait after failed attempt number a (from 0) and before
\* attempt a + 1 is exactly min(baseDelayMs * 2^a, maxDelayMs) ms; successive
\* waits are non-decreasing and never exceed maxDelayMs; every invocation but
\* the last was followed by one wait, and the call completes at the instant of
\* its last invocation (no wait after the final failure or after a success).
C24_Delays ==
    LET d == run.delays IN
    /\ \A i \in 1..Len(d) :
          LET exact == run.baseDelayMs * TwoTo(i - 1) IN
          /\ d[i] = IF exact <= run.maxDelayMs THEN exact ELSE run.maxDelayMs
          /\ d[i] <= run.maxDelayMs
          /\ i > 1 => d[i - 1] <= d[i]
    /\ run.pc = "attempt" => Len(d) = run.invocations /\ Len(d) = run.attempt
    /\ run.pc = "wait" => Len(d) = run.invocations - 1
    /\ BackoffDone =>
          /\ Len(d) = run.invocations - 1
          /\ run.doneAt = run.startedAt + SumOf(d)
          /\ now = run.doneAt

C24_Witness ==
    /\ BackoffDone
    /\ run.outcome = "rejected"
    /\ run.delays = <<1000, 2000, 2500>>
    /\ run.invocations = 4
    /\ run.doneAt = run.startedAt + 5500

C24_WitnessResolved ==
    /\ BackoffDone
    /\ run.outcome = "resolved"
    /\ run.options.baseDelayMs = Undefined /\ run.options.maxDelayMs = Undefined
    /\ run.delays = <<100, 200>>
    /\ run.invocations = 3

\* the string form of the non-error values an operation is rejected with
StringForm(v) ==
    CASE v = Str(<<"string error">>) -> <<"string error">>
      [] v = Num(42) -> <<"42">>
      [] v = Null -> <<"null">>

\* C25: final failure.  When all maxRetries + 1 attempts have failed, the call
\* rejects with the failure of the last attempt: that very error object when
\* it is one, otherwise an error whose message is the string form of the value.
C25_LastError ==
    (BackoffDone /\ run.outcome = "rejected") =>
        LET last == run.failures[Len(run.failures)] IN
        /\ Len(run.failures) = run.maxRetries + 1
        /\ run.error.type = "error"
        /\ last.type = "error" => run.error = last
        /\ last.type # "error" => run.error.message = StringForm(last)

C25_Witness ==
    /\ BackoffDone
    /\ run.outcome = "rejected"
    /\ run.failures = <<Str(<<"string error">>), Num(42), Null>>
    /\ run.error = [type |-> "error", message |-> <<"null">>]

C25_WitnessErrorObject ==
    /\ BackoffDone
    /\ run.outcome = "rejected"
    /\ run.failures = <<Str(<<"string error">>), [type |-> "error", message |-> <<"fail 1">>],
                        [type |-> "error", message |-> <<"final fail">>]>>
    /\ run.error = [type |-> "error", message |-> <<"final fail">>]

(***************************************************************************)
(* Properties of concurrent cache calls                                    *)
(***************************************************************************)
Quiescent == \A f \in Flows : race.flows[f].op = "none"

\* C26: concurrent calls lose no write.  Once all concurrently issued get and
\* set calls have completed, every key whose last completed set is still
\* unexpired holds the entry of that set: its value and its expiry time.
C26_NoLostWrite ==
    Quiescent =>
        \A k \in DirectKeys :
            LET last == race.lastDone[k] IN
            (last # NoEntry /\ now <= last.expiresAt) =>
                /\ idbHas(store, getCacheKey(k))
                /\ store[getCacheKey(k)].value = last.value
                /\ store[getCacheKey(k)].expiresAt = last.expiresAt

\* C26, second half: a get in flight while a set of the same key completes
\* leaves the key present.
C26_NoPurgeOfFreshEntry ==
    Quiescent =>
        \A k \in DirectKeys :
            LET last == race.lastDone[k] IN
            (last # NoEntry /\ now <= last.expiresAt) => idbHas(store, getCacheKey(k))

(***************************************************************************)
(* Properties of getStats                                                  *)
(***************************************************************************)
StatsDone == lastOp.op = "getStats" /\ ~lastOp.failed

\* the keys an eviction scan at time t purges as expired
PurgedByScan(s, t) ==
    LET ops == evictScan(s, SelectSeq(idbKeysInOrder(s), isCacheKey), t) IN
    {ops[i].key : i \in {j \in 1..Len(ops) : ops[j].kind = "del"}}

\* the logical keys a get at time t treats as expired (it purges them)
PurgedByGet(s, t) ==
    {k \in DirectKeys : /\ idbHas(s, getCacheKey(k))
                        /\ ~idbHas(get(s, k, t, "none").store, getCacheKey(k))}

\* C27: getStats is read-only and consistent.  A getStats call in which no
\* store operation fails leaves the store as it was, expired entries included;
\* totalEntries is the number of namespaced keys, validEntries the number of
\* entries with now <= expiresAt, expiredEntries the number with
\* now > expiresAt, and the two add up to totalEntries; the entries it counts
\* as expired are those a get or an eviction scan at the same instant purges.
C27_StatsReadOnly ==
    StatsDone =>
        LET t == lastOp.at
            stats == lastOp.value
            cacheKeys == Namespaced(lastOp.before)
            expired == {k \in cacheKeys : t > lastOp.before[k].expiresAt}
        IN /\ store = lastOp.before
           /\ stats.totalEntries = Cardinality(cacheKeys)
           /\ stats.validEntries = Cardinality({k \in cacheKeys : t <= store[k].expiresAt})
           /\ stats.expiredEntries = Cardinality(expired)
           /\ stats.totalEntries = stats.validEntries + stats.expiredEntries
           /\ PurgedByScan(store, t) = expired
           /\ {getCacheKey(k) : k \in PurgedByGet(store, t)} = expired

C27_Witness ==
    /\ StatsDone
    /\ lastOp.value = [totalEntries |-> 2, expiredEntries |-> 1, validEntries |-> 1]
    /\ \E k \in Namespaced(store) : store[k].expiresAt = lastOp.at
    /\ \E k \in Namespaced(store) : store[k].expiresAt < lastOp.at

(***************************************************************************)
(* Properties of the retries in the repository                             *)
(***************************************************************************)
\* the completed accessor call sent requests and every one failed at network level
AllAttemptsNetworkErrors ==
    /\ call.pc = "done" /\ call.op \in Accessors
    /\ call.statuses # <<>>
    /\ \A i \in 1..Len(call.statuses) : call.statuses[i] = 0

\* C28: retry bound.  No accessor call issues more than 3 HTTP requests; a
\* call whose every fetch attempt fails at network level issues exactly 3,
\* after waits of 100 and 200 ms, all with the headers prepared from the one
\* read of the validator before the first attempt, and then takes its
\* fallback: the bundled lookup, the local-only result or the empty list
\* (a failing cache write of the fallback leads to the same value).
C28_RetryBound ==
    /\ call.op \in Accessors => Len(call.requests) <= 3 /\ call.http <= 3
    /\ AllAttemptsNetworkErrors =>
          /\ Len(call.requests) = 3
          /\ call.etagReads = 1
          /\ \A i \in 1..3 :
                /\ call.requests[i] = call.requests[1]
                /\ call.requests[i].headers.IfNoneMatch =
                      (IF call.cachedETag \in {Undefined, Null} THEN Undefined
                       ELSE call.cachedETag)
          /\ call.delays = <<100, 200>>
          /\ call.tier \in {"bundled", "local", "none", "empty", "catch"}
          /\ call.op = "getSpecies" => call.result = getCoreSpeciesById(call.arg.s)
          /\ call.op = "search" => call.result = fuzzySearchPreload(call.arg.s)
          /\ call.op = "getPopulation" => call.result = Arr(<<>>)

C28_Witness ==
    /\ AllAttemptsNetworkErrors
    /\ call.op = "search"
    /\ Len(call.requests) = 3
    /\ call.requests[3].headers.IfNoneMatch = Str(<<"\"abc123\"">>)
    /\ call.tier = "local"

(***************************************************************************)
(* Frame of get and set                                                    *)
(***************************************************************************)
\* C29: get and set touch only their own key.  A step that is a get(k) or a
\* set(k, v, ttl) leaves every store key other than sea-here-cache:k as it
\* was: present with the same entry if it was present, absent if it was
\* absent; in particular no other entry is evicted, however many there are.
C29_OwnKeyOnly ==
    [][(nops' = nops + 1 /\ lastOp'.op \in {"get", "set"}) =>
          \A k \in (DOMAIN store \cup DOMAIN store') \ {<<"sea-here-cache:">> \o lastOp'.key} :
              /\ k \in DOMAIN store
              /\ k \in DOMAIN store'
              /\ store'[k] = store[k]]_vars

\* a get has purged its own expired entry and left another expired entry and
\* the key of another application in place
C29_Witness ==
    /\ lastOp.op = "get" /\ ~lastOp.failed
    /\ lastOp.key = <<"k1">>
    /\ lastOp.value = Undefined
    /\ ~idbHas(store, <<"sea-here-cache:", "k1">>)
    /\ idbHas(store, <<"sea-here-cache:", "k2">>)
    /\ lastOp.at > store[<<"sea-here-cache:", "k2">>].expiresAt
    /\ idbHas(store, ForeignKey)
    /\ nops = MaxOps

(***************************************************************************)
(* Validator and data                                                      *)
(***************************************************************************)
\* the cache holds a live entry under logical key k
LiveUnder(k) ==
    /\ idbHas(store, <<"sea-here-cache:">> \o k)
    /\ now <= store[<<"sea-here-cache:">> \o k].expiresAt

\* C30: a cached validator never points at missing data.  Between accessor
\* calls in which no store operation failed, whenever the cache holds a live
\* entry under etag:{url} it holds a live entry under the data key of the
\* resource the url addresses.
C30_ValidatorHasData ==
    (call.pc = "done" /\ call.op \in Accessors /\ ~call.storeFailed /\ ~prev.storeFailed)
    => (LiveUnder(call.etagKey) => LiveUnder(call.cacheKey))

\* C30 for a getPopulation call that sent the cached validator and was
\* answered 304: the validator has outlived the data it was received with
C30_PopulationValidatorHasData ==
    (call.pc = "done" /\ call.op = "getPopulation" /\ ~call.storeFailed /\ ~prev.storeFailed
     /\ call.http = 1 /\ call.statuses = <<304>>
     /\ call.requests[1].headers.IfNoneMatch # Undefined)
    => (LiveUnder(call.etagKey) => LiveUnder(call.cacheKey))

\* the data of a valid response has expired while its validator is live: the
\* next getPopulation sends the validator, is answered 304 and returns []
ValidatorOutlivesData ==
    /\ call.pc = "done" /\ call.op = "getPopulation"
    /\ ~call.storeFailed /\ ~prev.storeFailed
    /\ RemoteValid(prev)
    /\ call.statuses = <<304>>
    /\ call.requests[1].headers.IfNoneMatch # Undefined
    /\ call.result = Arr(<<>>)
    /\ LiveUnder(call.etagKey)
    /\ ~LiveUnder(call.cacheKey)

(***************************************************************************)
(* Properties of getPopulation against a reachable server                  *)
(***************************************************************************)
\* the series the server holds and its current ETag
ServedSeries == Arr(<<Point(2020, 1000), Point(2021, 1100)>>)
ServedETag == Str(<<"\"abc123\"">>)

\* in call c the store did not fail and the server was reachable and answered
\* as an HTTP server does: 304 exactly to a request whose If-None-Match is the
\* current ETag, and otherwise 200 with the series and its ETag
ServedFaithfully(c) ==
    /\ c.op = "getPopulation"
    /\ ~c.storeFailed
    /\ Len(c.statuses) = Len(c.requests)
    /\ \A i \in 1..Len(c.statuses) :
          IF c.requests[i].headers.IfNoneMatch = ServedETag
          THEN c.statuses[i] = 304
          ELSE /\ c.statuses[i] = 200
               /\ i = Len(c.statuses)
               /\ c.response.body = ServedSeries
               /\ c.response.etag = ServedETag

\* C31: reachable remote data is served.  When the store does not fail and
\* the server is reachable and answers faithfully in every call so far, a
\* completed getPopulation(id) for a non-blank id has returned the served
\* series, also after the 6-hour TTL of the cached series has elapsed.
C31_RemoteServed ==
    (/\ call.pc = "done"
     /\ call.tier # "guard"
     /\ ServedFaithfully(call)
     /\ prev.op = "none" \/ ServedFaithfully(prev))
    => call.result = ServedSeries

\* the first call of C31's case does return the series
FirstCallServed ==
    (/\ call.pc = "done"
     /\ call.tier # "guard"
     /\ ServedFaithfully(call)
     /\ prev.op = "none")
    => call.result = ServedSeries

HasIdentifier(v, id) == Prop(v, "id") = Str(id)

\* C33: identifier consistency.  A record returned by getSpecies(id) has the
\* identifier id, and so has the value of every entry under species:{id},
\* whatever valid species record the remote API answered with.
C33_IdentifierConsistency ==
    (call.op = "getSpecies" /\ call.arg.type = "string")
    => /\ (call.pc = "done" /\ call.outcome = "resolved" /\ call.result # Undefined)
             => HasIdentifier(call.result, call.arg.s)
       /\ idbHas(store, <<"sea-here-cache:", "species:">> \o call.arg.s)
             => HasIdentifier(store[<<"sea-here-cache:", "species:">> \o call.arg.s].value,
                              call.arg.s)

\* C33 for the remote tier alone: a validated remote record that getSpecies(id)
\* returns and caches has the identifier id
C33_RemoteIdentifier ==
    (Completed("getSpecies") /\ call.tier = "remote" /\ ~call.storeFailed)
    => /\ HasIdentifier(call.result, call.arg.s)
       /\ HasIdentifier(DataEntry(call).value, call.arg.s)

\* the bundled tier returns a record with the identifier asked for, for the
\* identifiers that are no inherited property name (C1)
BundledIdentifier ==
    (Completed("getSpecies") /\ call.tier = "bundled" /\ call.arg # Str(<<"constructor">>))
    => HasIdentifier(call.result, call.arg.s)

(***************************************************************************)
(* Validity of population data                                             *)
(***************************************************************************)
\* a population data point: a year that is a positive integer and a count
\* that is a non-negative integer
ValidPoint(p) ==
    /\ Prop(p, "year").type = "number"
    /\ Prop(p, "count").type = "number"
    /\ Prop(p, "year").n \in Nat \ {0}
    /\ Prop(p, "count").n \in Nat

ValidSeries(v) == isArray(v) /\ \A i \in 1..Len(v.items) : ValidPoint(v.items[i])

\* C34: every list getPopulation returns, and every value stored under
\* population:{id}, holds valid population data points only, whatever array
\* the remote API answers with.
C34_ValidPoints ==
    (call.op = "getPopulation" /\ call.arg.type = "string")
    => /\ (call.pc = "done" /\ call.outcome = "resolved") => ValidSeries(call.result)
       /\ idbHas(store, <<"sea-here-cache:", "population:">> \o call.arg.s)
             => ValidSeries(store[<<"sea-here-cache:", "population:">> \o call.arg.s].value)

\* what getPopulation does guarantee: it returns a list
PopulationIsAList ==
    (Completed("getPopulation") /\ call.outcome = "resolved") => isArray(call.result)

(***************************************************************************)
(* Properties of concurrent getSpecies calls                               *)
(***************************************************************************)
AllSpeciesCallsDone == \A f \in Flows : conc[f].pc = "done"

\* the remote records the completed calls obtained, validated and cached
CachedRemote == {conc[f].result : f \in {g \in Flows : conc[g].tier = "remote"}}

\* C35: concurrent getSpecies calls do not downgrade the cache.  When all
\* concurrent getSpecies(id) calls have completed and at least one of them
\* cached a validated remote record, the entry under species:{id} is a remote
\* record one of them cached, not the bundled record.
C35_NoDowngrade ==
    (AllSpeciesCallsDone /\ CachedRemote # {})
    => /\ idbHas(store, <<"sea-here-cache:", "species:">> \o ConcurrentId)
       /\ store[<<"sea-here-cache:", "species:">> \o ConcurrentId].value \in CachedRemote

\* what does hold: the entry is a record one of the calls returned
EntryIsSomeResult ==
    (AllSpeciesCallsDone /\ CachedRemote # {})
    => /\ idbHas(store, <<"sea-here-cache:", "species:">> \o ConcurrentId)
       /\ store[<<"sea-here-cache:", "species:">> \o ConcurrentId].value
             \in {conc[f].result : f \in Flows}

(***************************************************************************)
(* Termination                                                             *)
(***************************************************************************)
CallPending == call.pc \notin {"idle", "done"}
RunPending == run.pc \in {"attempt", "wait"}

\* C36: termination.  Provided every store operation, fetch attempt and timer
\* settles, every accessor call that has started completes (it resolves or
\* rejects) and so does every withBackoff call; and an accessor call waits
\* for at most 2 backoff delays.
C36_Termination ==
    /\ [](call.op \in Accessors => Len(call.delays) <= 2)
    /\ CallPending ~> (call.pc = "done" /\ call.outcome \in {"resolved", "rejected"})
    /\ RunPending ~> (run.pc = "done" /\ run.outcome \in {"resolved", "rejected"})

\* an accessor call that completed after waiting for both backoff delays
C36_Witness ==
    /\ call.pc = "done" /\ call.op \in Accessors
    /\ call.delays = <<100, 200>>
    /\ call.doneAt = call.startedAt + 300
    /\ call.outcome = "resolved"

\* a withBackoff call that rejected after its last retry
C36_WitnessBackoff ==
    /\ run.pc = "done"
    /\ run.outcome = "rejected"
    /\ run.invocations = MaxRetriesOption + 1
    /\ Len(run.delays) = MaxRetriesOption

\* what the component shows of a species: neither the loading nor the error
\* view is rendered, and InfoCard renders nothing while closed
Displayed ==
    IF /\ view.component \in {"InfoCard", "DeeperDive"}
       /\ view.component = "InfoCard" => view.isOpen
       /\ ~view.loading
       /\ ~Truthy(view.error)
       /\ Truthy(view.species)
    THEN view.species
    ELSE Null

\* C37: callers discard stale results.  Once every getSpecies call a component
\* awaited has resolved, the species InfoCard or DeeperDive displays, if any,
\* is the one named by its current speciesId / route id: a result that resolved
\* after the id changed has not overwritten the state of the newer id.
C37_DisplaysCurrent ==
    (view.pending = <<>> /\ Displayed # Null) =>
        /\ view.speciesId.type = "string"
        /\ HasIdentifier(Displayed, view.speciesId.s)

\* C37, second half: a closed InfoCard holds no species once its calls resolved
C37_ClosedHoldsNothing ==
    (view.component = "InfoCard" /\ view.pending = <<>> /\ ~view.isOpen) =>
        view.species = Null

====
